---- MODULE Spec2Model ----
EXTENDS Integers, Sequences, FiniteSets, TLC

(***************************************************************************)
(* Model of the B2B order intake service: the order status state machine   *)
(* (domain/enums.go), the order service (service/sku_service.go), the      *)
(* admin and cart handlers (api/handlers) and the router (api/router.go).  *)
(* Every repository call is one atomic step; a request is a sequence of    *)
(* such steps, and requests interleave freely, as goroutines do.           *)
(***************************************************************************)

\* ------------------------------------------------------------------ bounds
MaxAdmin == 3         \* admin requests issued one after the other
MaxConcurrent == 2    \* admin requests that may run concurrently
MaxOrders == 2        \* order ids an admin request may name
MaxCart == 2          \* cart submissions issued one after the other
MaxRace == 2          \* cart submissions that may run concurrently
MaxCartLen == 2       \* lines of a cart, when all carts are enumerated
MaxGet == 2           \* partner order reads that may run concurrently
MaxGIDLen == 4        \* characters of a text the platform may answer with
MaxNameLen == 5       \* characters of a customer name

\* A nil pointer / SQL NULL, and a nil *int64 identifier.
Nil == "nil"
NoID == 0

\* ------------------------------------------------------- domain/enums.go
OrderStatusPendingConfirmation == "PENDING_CONFIRMATION"
OrderStatusConfirmed == "CONFIRMED"
OrderStatusRejected == "REJECTED"
OrderStatusShipped == "SHIPPED"
OrderStatusDelivered == "DELIVERED"
OrderStatusCancelled == "CANCELLED"

OrderStatuses ==
    { OrderStatusPendingConfirmation, OrderStatusConfirmed, OrderStatusRejected,
      OrderStatusShipped, OrderStatusDelivered, OrderStatusCancelled }

\* A bug that would let a confirmed order be rejected as well.
CanTransitionTo_ConfirmedRejectable(s, newStatus) ==
    CASE s = OrderStatusPendingConfirmation ->
            newStatus \in {OrderStatusConfirmed, OrderStatusRejected, OrderStatusCancelled}
      [] s = OrderStatusConfirmed ->
            newStatus \in {OrderStatusShipped, OrderStatusCancelled, OrderStatusRejected}
      [] s = OrderStatusShipped -> newStatus = OrderStatusDelivered
      [] OTHER -> FALSE

CanTransitionTo(s, newStatus) ==
    CASE s = OrderStatusPendingConfirmation ->
            \/ newStatus = OrderStatusConfirmed
            \/ newStatus = OrderStatusRejected
            \/ newStatus = OrderStatusCancelled
      [] s = OrderStatusConfirmed ->
            \/ newStatus = OrderStatusShipped
            \/ newStatus = OrderStatusCancelled
      [] s = OrderStatusShipped -> newStatus = OrderStatusDelivered
      [] s \in {OrderStatusRejected, OrderStatusDelivered, OrderStatusCancelled} -> FALSE
      [] OTHER -> FALSE

\* ------------------------------------------------------------------ state
VARIABLES
    orders,       \* supplier_orders rows: order id -> row
    items,        \* supplier_order_items rows: order id -> the batch inserted for it
    events,       \* order_events rows, in creation order
    idem,         \* idempotency_keys rows
    skuMappings,  \* sku_mappings rows: SKU -> row, or NoMapping
    admin,        \* the admin requests: request -> its position and locals
    cart,         \* the cart submissions: request -> its position and locals
    gets,         \* the partner order reads: request -> its position and locals
    shopify       \* the platform: how it names the objects it creates

vars == <<orders, items, events, idem, skuMappings, admin, cart, gets, shopify>>
store == <<orders, items, events, idem, skuMappings>>

OrderIDs == 1..MaxOrders
AdminIDs == 1..(IF MaxAdmin > MaxConcurrent THEN MaxAdmin ELSE MaxConcurrent)
NoOrder == [id |-> 0]

Partners == {"p1", "p2"}

\* A nil *string, and a pointer to a text.
NilString == [isNil |-> TRUE, value |-> << >>]
stringPtr(s) == [isNil |-> FALSE, value |-> s]

\* The customer name of the carts whose name does not matter: "a b".
DefaultName == <<"a", " ", "b">>

\* domain.SupplierOrder
SupplierOrder(id, partnerID, partnerOrderID, status) ==
    [ id |-> id, partnerID |-> partnerID, partnerOrderID |-> partnerOrderID,
      status |-> status, customerName |-> DefaultName, rejectionReason |-> Nil,
      trackingCarrier |-> Nil, trackingNumber |-> Nil, trackingURL |-> Nil,
      shopifyDraftOrderID |-> NoID, shopifyOrderID |-> NoID ]

\* ------------------------------------------------- repository (contract)
\* SupplierOrder.GetByID: the row, or NoOrder for the not-found outcome.
GetByID(rows, id) == IF id \in DOMAIN rows THEN rows[id] ELSE NoOrder

\* SupplierOrder.UpdateStatus(id, status, reason): one unconditional UPDATE.
UpdateStatus(rows, id, status, reason) ==
    [rows EXCEPT ![id].status = status, ![id].rejectionReason = reason]

\* SupplierOrder.UpdateTracking(id, carrier, number, url): one UPDATE that
\* stores the tracking fields together with the SHIPPED status.
UpdateTracking(rows, id, carrier, number, url) ==
    [rows EXCEPT ![id].status = OrderStatusShipped,
                  ![id].trackingCarrier = carrier,
                  ![id].trackingNumber = number,
                  ![id].trackingURL = url]

\* domain.OrderEvent of type status_change
StatusChangeEvent(orderID, from, to) ==
    [ orderID |-> orderID, eventType |-> "status_change", from |-> from, to |-> to ]

\* ---------------------------------------------------------- admin requests
AdminKinds == {"confirm", "reject", "ship", "deliver"}

IdleAdmin ==
    [ pc |-> "idle", kind |-> Nil, orderID |-> 0, reason |-> Nil,
      trackingURL |-> Nil, after |-> {}, from |-> Nil, code |-> 0, err |-> Nil, errFrom |-> Nil, errTo |-> Nil,
      respStatus |-> Nil ]

\* The status an admin operation moves the order to.
Target(kind) ==
    CASE kind = "confirm" -> OrderStatusConfirmed
      [] kind = "reject" -> OrderStatusRejected
      [] kind = "ship" -> OrderStatusShipped
      [] OTHER -> OrderStatusDelivered

Done(a) == {b \in AdminIDs : admin[b].pc = "done"}

\* A client issues an admin request; requests are numbered in issue order.
\* The router binds confirm, reject and ship only: any other path has no
\* handler and is answered 404 by the engine.
NewRouter(a) ==
    /\ admin[a].pc = "idle"
    /\ \A b \in AdminIDs : b < a => admin[b].pc # "idle"
    /\ \E kind \in AdminKinds, id \in OrderIDs, url \in {Nil, "url"} :
          admin' = [admin EXCEPT ![a] =
                      [ IdleAdmin EXCEPT
                          !.kind = kind, !.orderID = id,
                          !.reason = IF kind = "reject" THEN "out of stock" ELSE Nil,
                          !.trackingURL = IF kind = "ship" THEN url ELSE Nil,
                          !.after = Done(a),
                          !.pc = CASE kind = "confirm" -> "handler"
                                   [] kind = "deliver" -> "done"
                                   [] OTHER -> "service",
                          !.code = IF kind = "deliver" THEN 404 ELSE 0,
                          !.err = IF kind = "deliver" THEN "no_route" ELSE Nil ]]
    /\ UNCHANGED <<orders, events, items, idem, skuMappings, cart, gets, shopify>>

\* HandleConfirmOrder reads the order before calling the service.
HandleConfirmOrder(a) ==
    /\ admin[a].pc = "handler"
    /\ admin[a].kind = "confirm"
    /\ LET order == GetByID(orders, admin[a].orderID) IN
          IF order = NoOrder
          THEN admin' = [admin EXCEPT ![a].pc = "done", ![a].code = 404,
                                      ![a].err = "not_found"]
          ELSE admin' = [admin EXCEPT ![a].pc = "service"]
    /\ UNCHANGED <<orders, events, items, idem, skuMappings, cart, gets, shopify>>

\* A bug that would skip the transition check: every loaded order is updated.
LoadAndValidate_SkipsCheck(a) ==
    /\ admin[a].pc = "service"
    /\ LET order == GetByID(orders, admin[a].orderID) IN
          IF order = NoOrder
          THEN admin' = [admin EXCEPT ![a].pc = "done", ![a].code = 500,
                                      ![a].err = "not_found"]
          ELSE admin' = [admin EXCEPT ![a].pc = "update", ![a].from = order.status]
    /\ UNCHANGED <<orders, events, items, idem, skuMappings, cart, gets, shopify>>

\* A bug that would answer a refused transition as an internal error (the
\* handler not recognising the error's type).
LoadAndValidate_InvalidAsInternal(a) ==
    /\ admin[a].pc = "service"
    /\ LET order == GetByID(orders, admin[a].orderID)
           to == Target(admin[a].kind) IN
          IF order = NoOrder
          THEN admin' = [admin EXCEPT ![a].pc = "done", ![a].code = 500,
                                      ![a].err = "not_found"]
          ELSE IF ~CanTransitionTo(order.status, to)
          THEN admin' = [admin EXCEPT ![a].pc = "done", ![a].code = 500,
                                      ![a].err = "internal",
                                      ![a].from = order.status]
          ELSE admin' = [admin EXCEPT ![a].pc = "update", ![a].from = order.status]
    /\ UNCHANGED <<orders, events, items, idem, skuMappings, cart, gets, shopify>>

\* The first half of ConfirmOrder / RejectOrder / ShipOrder: load the order
\* and validate the transition. A service error that is not an
\* ErrInvalidStateTransition is answered 500 by the handler.
LoadAndValidate(a) ==
    /\ admin[a].pc = "service"
    /\ LET order == GetByID(orders, admin[a].orderID)
           to == Target(admin[a].kind) IN
          IF order = NoOrder
          THEN admin' = [admin EXCEPT ![a].pc = "done", ![a].code = 500,
                                      ![a].err = "not_found"]
          ELSE IF ~CanTransitionTo(order.status, to)
          THEN admin' = [admin EXCEPT ![a].pc = "done", ![a].code = 400,
                                      ![a].err = "invalid_state_transition",
                                      ![a].from = order.status,
                                      ![a].errFrom = order.status, ![a].errTo = to]
          ELSE admin' = [admin EXCEPT ![a].pc = "update", ![a].from = order.status]
    /\ UNCHANGED <<orders, events, items, idem, skuMappings, cart, gets, shopify>>

\* A bug that would store the wrong status constant on confirm.
ConfirmOrder_StoresShipped(a) ==
    /\ admin[a].pc = "update"
    /\ admin[a].kind = "confirm"
    /\ orders' = UpdateStatus(orders, admin[a].orderID, OrderStatusShipped, Nil)
    /\ admin' = [admin EXCEPT ![a].pc = "event"]
    /\ UNCHANGED <<events, items, idem, skuMappings, cart, gets, shopify>>

\* ConfirmOrder: persist the status.
ConfirmOrder(a) ==
    /\ admin[a].pc = "update"
    /\ admin[a].kind = "confirm"
    /\ orders' = UpdateStatus(orders, admin[a].orderID, OrderStatusConfirmed, Nil)
    /\ admin' = [admin EXCEPT ![a].pc = "event"]
    /\ UNCHANGED <<events, items, idem, skuMappings, cart, gets, shopify>>

\* RejectOrder: persist the status and the reason.
RejectOrder(a) ==
    /\ admin[a].pc = "update"
    /\ admin[a].kind = "reject"
    /\ orders' = UpdateStatus(orders, admin[a].orderID, OrderStatusRejected, admin[a].reason)
    /\ admin' = [admin EXCEPT ![a].pc = "event"]
    /\ UNCHANGED <<events, items, idem, skuMappings, cart, gets, shopify>>

\* A bug that would store the status alone, through UpdateStatus.
ShipOrder_StatusOnly(a) ==
    /\ admin[a].pc = "update"
    /\ admin[a].kind = "ship"
    /\ orders' = UpdateStatus(orders, admin[a].orderID, OrderStatusShipped, Nil)
    /\ admin' = [admin EXCEPT ![a].pc = "event"]
    /\ UNCHANGED <<events, items, idem, skuMappings, cart, gets, shopify>>

\* ShipOrder: persist the tracking fields (and with them the status).
ShipOrder(a) ==
    /\ admin[a].pc = "update"
    /\ admin[a].kind = "ship"
    /\ orders' = UpdateTracking(orders, admin[a].orderID, "dhl", "trk-1", admin[a].trackingURL)
    /\ admin' = [admin EXCEPT ![a].pc = "event"]
    /\ UNCHANGED <<events, items, idem, skuMappings, cart, gets, shopify>>

\* The repository update fails: the service returns the error, the handler
\* answers 500.
UpdateFails(a) ==
    /\ admin[a].pc = "update"
    /\ admin' = [admin EXCEPT ![a].pc = "done", ![a].code = 500, ![a].err = "internal"]
    /\ UNCHANGED <<orders, events, items, idem, skuMappings, cart, gets, shopify>>

\* The status_change event is appended; its "from" is the status loaded
\* at the start of the operation.
LogEvent(a) ==
    /\ admin[a].pc = "event"
    /\ events' = Append(events,
                        StatusChangeEvent(admin[a].orderID, admin[a].from,
                                          Target(admin[a].kind)))
    /\ admin' = [admin EXCEPT ![a].pc = "respond"]
    /\ UNCHANGED <<orders, items, idem, skuMappings, cart, gets, shopify>>

\* A bug that would return the event store's error to the handler.
LogEventFails_Surfaced(a) ==
    /\ admin[a].pc = "event"
    /\ admin' = [admin EXCEPT ![a].pc = "done", ![a].code = 500, ![a].err = "internal"]
    /\ UNCHANGED <<orders, events, items, idem, skuMappings, cart, gets, shopify>>

\* OrderEvent.Create fails: its error is dropped.
LogEventFails(a) ==
    /\ admin[a].pc = "event"
    /\ admin' = [admin EXCEPT ![a].pc = "respond"]
    /\ UNCHANGED <<orders, events, items, idem, skuMappings, cart, gets, shopify>>

\* The handler re-reads the order and answers 200 with the row it read.
Respond(a) ==
    /\ admin[a].pc = "respond"
    /\ admin' = [admin EXCEPT ![a].pc = "done", ![a].code = 200,
                              ![a].respStatus = GetByID(orders, admin[a].orderID).status]
    /\ UNCHANGED <<orders, events, items, idem, skuMappings, cart, gets, shopify>>

\* ------------------------------------------------------ cart submissions
SKUs == {"A", "B", "C"}
NoMapping == [sku |-> Nil]

\* domain.SKUMapping
SKUMapping(sku, isActive) ==
    [ sku |-> sku,
      shopifyProductID |-> CASE sku = "A" -> 11 [] sku = "B" -> 12 [] OTHER -> 13,
      shopifyVariantID |-> CASE sku = "A" -> 21 [] sku = "B" -> 22 [] OTHER -> 23,
      isActive |-> isActive ]

\* Every state of the mapping store over SKUs: no row, an inactive row, an
\* active row for each SKU.
MappingStores ==
    [SKUs -> {"missing", "inactive", "active"}]

StoreOf(f) ==
    [s \in SKUs |-> IF f[s] = "missing" THEN NoMapping ELSE SKUMapping(s, f[s] = "active")]

\* service.CartItem: the lines a partner may send.
CartItem(sku) ==
    [ sku |-> sku,
      title |-> CASE sku = "A" -> "Item A" [] sku = "B" -> "Item B" [] OTHER -> "Item C",
      price |-> CASE sku = "A" -> 10 [] sku = "B" -> 5 [] OTHER -> 7,
      quantity |-> CASE sku = "A" -> 2 [] OTHER -> 1,
      productURL |-> IF sku = "B" THEN "https://shop/b" ELSE Nil ]

\* service.CartSubmitRequest (the fields the orchestrator reads)
CartSubmitRequest(partnerOrderID, skus) ==
    [ partnerOrderID |-> partnerOrderID,
      items |-> [i \in 1..Len(skus) |-> CartItem(skus[i])],
      customerName |-> DefaultName ]

NoBody == [partnerOrderID |-> Nil, items |-> << >>, customerName |-> << >>]

\* Non-empty sequences over S of at most n elements (binding "min=1").
RECURSIVE SeqsUpTo(_, _)
SeqsUpTo(S, n) ==
    IF n = 0 THEN {}
    ELSE {<<x>> : x \in S}
         \cup {Append(q, x) : q \in SeqsUpTo(S, n - 1), x \in S}

\* Every cart of at most MaxCartLen lines.
AllBodies == {CartSubmitRequest("po-1", q) : q \in SeqsUpTo(SKUs, MaxCartLen)}

\* The bodies used when submissions are replayed and raced: a mixed cart, a
\* different cart under the same partner order id, and a cart for another
\* partner order id.
Bodies ==
    { CartSubmitRequest("po-1", <<"A", "B">>),
      CartSubmitRequest("po-1", <<"A">>),
      CartSubmitRequest("po-2", <<"B", "C">>) }

Keys == {Nil, "key-1"}

\* The request hash the idempotency middleware computes: a digest of the
\* body, equal exactly for equal bodies.
RequestHash(body) == <<"sha256", body.partnerOrderID, body.items, body.customerName>>

\* domain.IdempotencyKey
IdempotencyKey(key, partnerID, orderID, hash) ==
    [ key |-> key, partnerID |-> partnerID, supplierOrderID |-> orderID,
      requestHash |-> hash ]

CartIDs == 1..(IF MaxCart > MaxRace THEN MaxCart ELSE MaxRace)

\* A nil error.
NoError == [kind |-> Nil, msg |-> Nil]

EmptyMap == [s \in {} |-> NoMapping]

IdleCart ==
    [ pc |-> "idle", partnerID |-> Nil, key |-> Nil, body |-> NoBody, after |-> {},
      outcome |-> Nil, existingOrderID |-> NoID,
      failing |-> {}, hasSupplierSKU |-> FALSE, supplierItems |-> EmptyMap,
      orderID |-> NoID, gotItems |-> FALSE,
      stepA |-> Nil, callsA |-> 0, errA |-> NoError, lineItems |-> << >>, tags |-> << >>,
      shippingAddr |-> [firstName |-> << >>, lastName |-> NilString],
      draftOrderID |-> NoID, draftStored |-> FALSE,
      stepB |-> Nil, callsB |-> 0, errB |-> NoError,
      shopifyOrderID |-> NoID, orderStored |-> FALSE,
      code |-> 0, respOrderID |-> NoID ]

\* SKUMapping.GetBySKU: the row, or NoMapping for the not-found error.
GetBySKU(sku) == skuMappings[sku]

\* A bug that would take every mapping found, active or not.
RECURSIVE CheckCartForSupplierSKUs_IgnoresActive(_, _, _, _)
CheckCartForSupplierSKUs_IgnoresActive(cartItems, failing, i, supplierItems) ==
    IF i > Len(cartItems) THEN supplierItems
    ELSE LET sku == cartItems[i].sku
             mapping == GetBySKU(sku) IN
         IF i \in failing \/ mapping = NoMapping
         THEN CheckCartForSupplierSKUs_IgnoresActive(cartItems, failing, i + 1, supplierItems)
         ELSE CheckCartForSupplierSKUs_IgnoresActive(cartItems, failing, i + 1,
                  [s \in DOMAIN supplierItems \cup {sku} |->
                      IF s = sku THEN mapping ELSE supplierItems[s]])

\* A bug that would stop at the first lookup error and return the map built
\* so far.
RECURSIVE CheckCartForSupplierSKUs_AbortsOnError(_, _, _, _)
CheckCartForSupplierSKUs_AbortsOnError(cartItems, failing, i, supplierItems) ==
    IF i > Len(cartItems) THEN supplierItems
    ELSE LET sku == cartItems[i].sku
             mapping == GetBySKU(sku) IN
         IF i \in failing THEN supplierItems
         ELSE IF mapping = NoMapping
         THEN CheckCartForSupplierSKUs_AbortsOnError(cartItems, failing, i + 1, supplierItems)
         ELSE IF mapping.isActive
         THEN CheckCartForSupplierSKUs_AbortsOnError(cartItems, failing, i + 1,
                  [s \in DOMAIN supplierItems \cup {sku} |->
                      IF s = sku THEN mapping ELSE supplierItems[s]])
         ELSE CheckCartForSupplierSKUs_AbortsOnError(cartItems, failing, i + 1, supplierItems)

\* skuService.CheckCartForSupplierSKUs: the loop over the cart lines from
\* line i on, with the map built so far; "failing" are the lines whose
\* lookup returns an error. Returns the supplierItems map.
RECURSIVE CheckCartForSupplierSKUs(_, _, _, _)
CheckCartForSupplierSKUs(cartItems, failing, i, supplierItems) ==
    IF i > Len(cartItems) THEN supplierItems
    ELSE LET sku == cartItems[i].sku
             mapping == GetBySKU(sku) IN
         IF i \in failing \/ mapping = NoMapping
         THEN CheckCartForSupplierSKUs(cartItems, failing, i + 1, supplierItems)
         ELSE IF mapping.isActive
         THEN CheckCartForSupplierSKUs(cartItems, failing, i + 1,
                  [s \in DOMAIN supplierItems \cup {sku} |->
                      IF s = sku THEN mapping ELSE supplierItems[s]])
         ELSE CheckCartForSupplierSKUs(cartItems, failing, i + 1, supplierItems)

\* A bug that would attach the variant id to every line.
SupplierOrderItem_AlwaysVariant(orderID, cartItem, supplierItems) ==
    [ supplierOrderID |-> orderID, sku |-> cartItem.sku, title |-> cartItem.title,
      price |-> cartItem.price, quantity |-> cartItem.quantity,
      productURL |-> cartItem.productURL,
      isSupplierItem |-> cartItem.sku \in DOMAIN supplierItems,
      shopifyVariantID |-> SKUMapping(cartItem.sku, TRUE).shopifyVariantID ]

\* domain.SupplierOrderItem as CreateOrderFromCart builds it for one line.
SupplierOrderItem(orderID, cartItem, supplierItems) ==
    [ supplierOrderID |-> orderID, sku |-> cartItem.sku, title |-> cartItem.title,
      price |-> cartItem.price, quantity |-> cartItem.quantity,
      productURL |-> cartItem.productURL,
      isSupplierItem |-> cartItem.sku \in DOMAIN supplierItems,
      shopifyVariantID |-> IF cartItem.sku \in DOMAIN supplierItems
                           THEN supplierItems[cartItem.sku].shopifyVariantID
                           ELSE NoID ]

DoneCarts == {d \in CartIDs : cart[d].pc = "done"}

\* A partner posts /v1/carts/submit; requests are numbered in issue order.
Submit(c, partners, keys, bodies) ==
    /\ cart[c].pc = "idle"
    /\ \A d \in CartIDs : d < c => cart[d].pc # "idle"
    /\ \E partnerID \in partners, key \in keys, body \in bodies :
          cart' = [cart EXCEPT ![c] =
                     [ IdleCart EXCEPT !.pc = "middleware", !.partnerID = partnerID,
                                       !.key = key, !.body = body,
                                       !.after = DoneCarts ]]
    /\ UNCHANGED <<store, admin, gets, shopify>>

\* IdempotencyKey.GetByKey: the rows stored for a key.
GetByKey(key) == {r \in idem : r.key = key}

\* A bug that would treat every stored key as a replay, whatever the body.
IdempotencyMiddleware_IgnoresHash(c) ==
    /\ cart[c].pc = "middleware"
    /\ LET key == cart[c].key IN
          IF key = Nil \/ GetByKey(key) = {}
          THEN cart' = [cart EXCEPT ![c].pc = "classify", ![c].outcome = "fresh"]
          ELSE LET existing == CHOOSE r \in GetByKey(key) : TRUE IN
               cart' = [cart EXCEPT ![c].pc = "replay", ![c].outcome = "replay",
                                    ![c].existingOrderID = existing.supplierOrderID]
    /\ UNCHANGED <<store, admin, gets, shopify>>

\* The idempotency middleware in front of the handler: no key, or no row for
\* the key, is Fresh; a row with the same hash is Replay; a row with another
\* hash is Conflict and the request is rejected before the handler runs.
IdempotencyMiddleware(c) ==
    /\ cart[c].pc = "middleware"
    /\ LET key == cart[c].key IN
          IF key = Nil \/ GetByKey(key) = {}
          THEN cart' = [cart EXCEPT ![c].pc = "classify", ![c].outcome = "fresh"]
          ELSE LET existing == CHOOSE r \in GetByKey(key) : TRUE IN
               IF existing.requestHash = RequestHash(cart[c].body)
               THEN cart' = [cart EXCEPT ![c].pc = "replay", ![c].outcome = "replay",
                                         ![c].existingOrderID = existing.supplierOrderID]
               ELSE cart' = [cart EXCEPT ![c].pc = "done", ![c].outcome = "conflict",
                                         ![c].code = 409]
    /\ UNCHANGED <<store, admin, gets, shopify>>

\* A bug that would go on with the handler after a replay (a missing return).
ReturnExistingOrder_FallsThrough(c) ==
    /\ cart[c].pc = "replay"
    /\ cart' = [cart EXCEPT ![c].pc = "classify"]
    /\ UNCHANGED <<store, admin, gets, shopify>>

\* A bug that would record the key again, for the partner that replays it.
ReturnExistingOrder_RerecordsKey(c) ==
    /\ cart[c].pc = "replay"
    /\ LET order == GetByID(orders, cart[c].existingOrderID) IN
          IF order = NoOrder
          THEN /\ cart' = [cart EXCEPT ![c].pc = "done", ![c].code = 500]
               /\ UNCHANGED idem
          ELSE /\ cart' = [cart EXCEPT ![c].pc = "done", ![c].code = 200,
                                       ![c].respOrderID = order.id]
               /\ idem' = (idem \ GetByKey(cart[c].key))
                              \cup { IdempotencyKey(cart[c].key, cart[c].partnerID,
                                                    order.id, RequestHash(cart[c].body)) }
    /\ UNCHANGED <<orders, items, events, skuMappings, admin, gets, shopify>>

\* A bug that would insert the cart's lines again for the existing order.
ReturnExistingOrder_ReinsertsItems(c) ==
    /\ cart[c].pc = "replay"
    /\ LET order == GetByID(orders, cart[c].existingOrderID) IN
          IF order = NoOrder
          THEN /\ cart' = [cart EXCEPT ![c].pc = "done", ![c].code = 500]
               /\ UNCHANGED items
          ELSE /\ cart' = [cart EXCEPT ![c].pc = "done", ![c].code = 200,
                                       ![c].respOrderID = order.id]
               /\ items' = [items EXCEPT ![order.id] =
                              items[order.id] \o
                              [i \in 1..Len(cart[c].body.items) |->
                                  SupplierOrderItem(order.id, cart[c].body.items[i],
                                                    EmptyMap)]]
    /\ UNCHANGED <<orders, events, idem, skuMappings, admin, gets, shopify>>

\* HandleCartSubmit, isExisting: answer with the existing order.
ReturnExistingOrder(c) ==
    /\ cart[c].pc = "replay"
    /\ LET order == GetByID(orders, cart[c].existingOrderID) IN
          IF order = NoOrder
          THEN cart' = [cart EXCEPT ![c].pc = "done", ![c].code = 500]
          ELSE cart' = [cart EXCEPT ![c].pc = "done", ![c].code = 200,
                                    ![c].respOrderID = order.id]
    /\ UNCHANGED <<store, admin, gets, shopify>>

\* A bug that would report a supplier item whenever some line's lookup
\* returned a row.
CheckCart_AnyLookupSucceeded(c) ==
    /\ cart[c].pc = "classify"
    /\ \E failing \in SUBSET (1..Len(cart[c].body.items)) :
          LET supplierItems ==
                  CheckCartForSupplierSKUs(cart[c].body.items, failing, 1, EmptyMap)
              hasSupplierSKU ==
                  \E i \in 1..Len(cart[c].body.items) :
                      i \notin failing /\ GetBySKU(cart[c].body.items[i].sku) # NoMapping IN
          cart' = [cart EXCEPT ![c].failing = failing,
                               ![c].supplierItems = supplierItems,
                               ![c].hasSupplierSKU = hasSupplierSKU,
                               ![c].pc = IF hasSupplierSKU THEN "create_order" ELSE "done",
                               ![c].code = IF hasSupplierSKU THEN 0 ELSE 204]
    /\ UNCHANGED <<store, admin, gets, shopify>>

\* A bug that would record the idempotency key of a cart answered 204.
CheckCart_NoContentRecordsKey(c) ==
    /\ cart[c].pc = "classify"
    /\ \E failing \in SUBSET (1..Len(cart[c].body.items)) :
          LET supplierItems ==
                  CheckCartForSupplierSKUs(cart[c].body.items, failing, 1, EmptyMap)
              hasSupplierSKU == Cardinality(DOMAIN supplierItems) > 0 IN
          /\ cart' = [cart EXCEPT ![c].failing = failing,
                                  ![c].supplierItems = supplierItems,
                                  ![c].hasSupplierSKU = hasSupplierSKU,
                                  ![c].pc = IF hasSupplierSKU THEN "create_order" ELSE "done",
                                  ![c].code = IF hasSupplierSKU THEN 0 ELSE 204]
          /\ idem' = IF ~hasSupplierSKU /\ cart[c].key # Nil /\ GetByKey(cart[c].key) = {}
                     THEN idem \cup { IdempotencyKey(cart[c].key, cart[c].partnerID, NoID,
                                                     RequestHash(cart[c].body)) }
                     ELSE idem
    /\ UNCHANGED <<orders, items, events, skuMappings, admin, gets, shopify>>

\* HandleCartSubmit: classify the cart; no supplier SKU is answered 204.
CheckCart(c) ==
    /\ cart[c].pc = "classify"
    /\ \E failing \in SUBSET (1..Len(cart[c].body.items)) :
          LET supplierItems ==
                  CheckCartForSupplierSKUs(cart[c].body.items, failing, 1, EmptyMap)
              hasSupplierSKU == Cardinality(DOMAIN supplierItems) > 0 IN
          cart' = [cart EXCEPT ![c].failing = failing,
                               ![c].supplierItems = supplierItems,
                               ![c].hasSupplierSKU = hasSupplierSKU,
                               ![c].pc = IF hasSupplierSKU THEN "create_order" ELSE "done",
                               ![c].code = IF hasSupplierSKU THEN 0 ELSE 204]
    /\ UNCHANGED <<store, admin, gets, shopify>>

\* SupplierOrder.Create: the insert assigns the id; the store refuses a second
\* row with the same (partner id, partner order id).
CreateAllowed(partnerID, partnerOrderID) ==
    \A o \in DOMAIN orders :
        ~(orders[o].partnerID = partnerID /\ orders[o].partnerOrderID = partnerOrderID)

NewOrderID == Cardinality(DOMAIN orders) + 1

\* A bug that would insert the order whatever rows exist (no constraint on
\* the pair, or an insert that ignores it).
CreateOrderFromCart_NoConstraint(c) ==
    /\ cart[c].pc = "create_order"
    /\ \E ok \in BOOLEAN :
          IF ok
          THEN /\ orders' = orders @@
                     (NewOrderID :>
                        [ SupplierOrder(NewOrderID, cart[c].partnerID,
                                        cart[c].body.partnerOrderID,
                                        OrderStatusPendingConfirmation)
                          EXCEPT !.customerName = cart[c].body.customerName ])
               /\ cart' = [cart EXCEPT ![c].pc = "create_items", ![c].orderID = NewOrderID]
          ELSE /\ cart' = [cart EXCEPT ![c].pc = "done", ![c].code = 500]
               /\ UNCHANGED orders
    /\ UNCHANGED <<items, events, idem, skuMappings, admin, gets, shopify>>

\* CreateOrderFromCart, first half: build the order in PENDING_CONFIRMATION
\* and insert it. An insert error is answered 500 by the handler.
CreateOrderFromCart(c) ==
    /\ cart[c].pc = "create_order"
    /\ \E ok \in BOOLEAN :
          IF ok /\ CreateAllowed(cart[c].partnerID, cart[c].body.partnerOrderID)
          THEN /\ orders' = orders @@
                     (NewOrderID :>
                        [ SupplierOrder(NewOrderID, cart[c].partnerID,
                                        cart[c].body.partnerOrderID,
                                        OrderStatusPendingConfirmation)
                          EXCEPT !.customerName = cart[c].body.customerName ])
               /\ cart' = [cart EXCEPT ![c].pc = "create_items", ![c].orderID = NewOrderID]
          ELSE /\ cart' = [cart EXCEPT ![c].pc = "done", ![c].code = 500]
               /\ UNCHANGED orders
    /\ UNCHANGED <<items, events, idem, skuMappings, admin, gets, shopify>>

\* A bug that would carry on after a failed batch insert instead of returning.
CreateBatch_ContinuesOnError(c) ==
    /\ cart[c].pc = "create_items"
    /\ \E ok \in BOOLEAN :
          IF ok
          THEN /\ items' = items @@
                     (cart[c].orderID :>
                        [i \in 1..Len(cart[c].body.items) |->
                            SupplierOrderItem(cart[c].orderID, cart[c].body.items[i],
                                              cart[c].supplierItems)])
               /\ cart' = [cart EXCEPT ![c].pc = "event"]
          ELSE /\ cart' = [cart EXCEPT ![c].pc = "idempotency"]
               /\ UNCHANGED items
    /\ UNCHANGED <<orders, events, idem, skuMappings, admin, gets, shopify>>

\* CreateOrderFromCart, second half: one OrderItem per cart line, inserted as
\* one batch. A batch error is answered 500 by the handler.
CreateBatch(c) ==
    /\ cart[c].pc = "create_items"
    /\ \E ok \in BOOLEAN :
          IF ok
          THEN /\ items' = items @@
                     (cart[c].orderID :>
                        [i \in 1..Len(cart[c].body.items) |->
                            SupplierOrderItem(cart[c].orderID, cart[c].body.items[i],
                                              cart[c].supplierItems)])
               /\ cart' = [cart EXCEPT ![c].pc = "event"]
          ELSE /\ cart' = [cart EXCEPT ![c].pc = "done", ![c].code = 500]
               /\ UNCHANGED items
    /\ UNCHANGED <<orders, events, idem, skuMappings, admin, gets, shopify>>

\* CreateOrderFromCart, end: the order_created event; its error is dropped.
LogOrderCreated(c) ==
    /\ cart[c].pc = "event"
    /\ \E ok \in BOOLEAN :
          events' = IF ok
                    THEN Append(events, [ orderID |-> cart[c].orderID,
                                          eventType |-> "order_created",
                                          from |-> Nil,
                                          to |-> OrderStatusPendingConfirmation ])
                    ELSE events
    /\ cart' = [cart EXCEPT ![c].pc = "get_items"]
    /\ UNCHANGED <<orders, items, idem, skuMappings, admin, gets, shopify>>

\* HandleCartSubmit: read the items back; on error the saga is skipped.
GetByOrderID(c) ==
    /\ cart[c].pc = "get_items"
    /\ \E ok \in BOOLEAN :
          cart' = [cart EXCEPT ![c].gotItems = ok,
                               ![c].pc = IF ok THEN "draft" ELSE "idempotency"]
    /\ UNCHANGED <<store, admin, gets, shopify>>

\* ------------------------------------------------- the platform's GIDs
\* A text is a sequence of characters (one-character strings).
Slash == "/"
DigitChars == <<"0", "1", "2", "3", "4", "5", "6", "7", "8", "9">>

\* The value of a digit character, or -1 for any other character.
DigitValue(ch) ==
    IF \E d \in 1..10 : DigitChars[d] = ch
    THEN (CHOOSE d \in 1..10 : DigitChars[d] = ch) - 1
    ELSE -1

\* The %d verb of fmt.Sprintf, for a number that is not negative.
RECURSIVE FormatInt(_)
FormatInt(n) ==
    IF n < 10 THEN <<DigitChars[n + 1]>>
    ELSE FormatInt(n \div 10) \o <<DigitChars[(n % 10) + 1]>>

\* The object types the two mutations return.
TypeName(type) ==
    IF type = "DraftOrder"
    THEN <<"D", "r", "a", "f", "t", "O", "r", "d", "e", "r">>
    ELSE <<"O", "r", "d", "e", "r">>

\* fmt.Sprintf("gid://shopify/<Type>/%d", n): the GID of object n.
FormatGID(type, n) ==
    <<"g", "i", "d", ":", Slash, Slash, "s", "h", "o", "p", "i", "f", "y", Slash>>
        \o TypeName(type) \o <<Slash>> \o FormatInt(n)

\* The platform answers a successful mutation with the GID of the object it
\* created; "text" stands for a platform that answers with a given text
\* instead (the empty text when it returns no object).
Platform == [answers |-> "gid", text |-> << >>]

\* The id field of the object in the platform's answer.
ResponseGID(type, n) ==
    IF shopify.answers = "gid" THEN FormatGID(type, n) ELSE shopify.text

\* strings.Split(s, "/") from character i on, "cur" being the part read so
\* far: the parts between the separators, empty parts included; the empty
\* text has the one part "".
RECURSIVE Split(_, _, _)
Split(s, i, cur) ==
    IF i > Len(s) THEN <<cur>>
    ELSE IF s[i] = Slash THEN <<cur>> \o Split(s, i + 1, << >>)
    ELSE Split(s, i + 1, Append(cur, s[i]))

\* The digits of s from character i on, as a number added to acc; -1 if a
\* character is not a digit.
RECURSIVE ParseDigits(_, _, _)
ParseDigits(s, i, acc) ==
    IF i > Len(s) THEN acc
    ELSE IF DigitValue(s[i]) < 0 THEN -1
    ELSE ParseDigits(s, i + 1, acc * 10 + DigitValue(s[i]))

\* strconv.ParseInt(s, 10, 64): an optional sign and one or more decimal
\* digits. (Its range error needs 19 digits or more; the texts here are
\* shorter.)
ParseInt(s) ==
    LET signed == Len(s) > 0 /\ s[1] \in {"+", "-"}
        digits == IF signed THEN SubSeq(s, 2, Len(s)) ELSE s
        n == IF Len(digits) = 0 THEN -1 ELSE ParseDigits(digits, 1, 0) IN
    IF n < 0 THEN [ok |-> FALSE, value |-> 0]
    ELSE [ok |-> TRUE, value |-> IF signed /\ s[1] = "-" THEN 0 - n ELSE n]

\* A bug that would take the trailing part whatever the number of parts.
extractIDFromGID_AcceptsShort(gid) ==
    LET parts == Split(gid, 1, << >>)
        parsed == ParseInt(parts[Len(parts)]) IN
    IF ~parsed.ok THEN [id |-> NoID, err |-> "failed to parse ID from GID"]
    ELSE [id |-> parsed.value, err |-> Nil]

\* extractIDFromGID: the number in the last "/"-separated part of a GID of
\* at least four parts, or an error.
extractIDFromGID(gid) ==
    LET parts == Split(gid, 1, << >>) IN
    IF Len(parts) < 4 THEN [id |-> NoID, err |-> "invalid GID format"]
    ELSE LET parsed == ParseInt(parts[Len(parts)]) IN
         IF ~parsed.ok THEN [id |-> NoID, err |-> "failed to parse ID from GID"]
         ELSE [id |-> parsed.value, err |-> Nil]

\* The outcomes of a call to the platform other than success: user errors in
\* the answer, a transport failure, a timeout. Each comes back as an error.
DownstreamFailures == {"user_errors", "transport", "timeout"}

\* The error a step returns for an outcome of the platform call. Every one
\* is built with fmt.Errorf: a plain error value, of none of the error types
\* the handlers test for, that differs between outcomes by its text only.
\* The client reports a timeout as any other failure of the HTTP call.
StepError(step, outcome) ==
    CASE outcome = "ok" -> NoError
      [] outcome = "user_errors" ->
            [kind |-> "error", msg |-> "shopify user errors"]
      [] outcome = "no_id" ->
            [kind |-> "error",
             msg |-> IF step = "A" THEN "failed to extract draft order ID"
                     ELSE "failed to extract order ID"]
      [] OTHER ->
            [kind |-> "error",
             msg |-> IF step = "A"
                     THEN "failed to create draft order: failed to execute request"
                     ELSE "failed to complete draft order: failed to execute request"]

\* The name of the authenticated partner.
PartnerName(partnerID) == IF partnerID = "p1" THEN "Acme" ELSE "Bolt"

\* A bug that would tag the order mixed_cart when it has a supplier item or
\* a pass-through item.
DraftOrderTags_EitherKind(order, rows, partnerName) ==
    LET hasSupplierItems == \E i \in 1..Len(rows) : rows[i].isSupplierItem
        hasNonSupplierItems == \E i \in 1..Len(rows) : ~rows[i].isSupplierItem
        tags == << "partner:" \o partnerName,
                   "partner_order:" \o order.partnerOrderID,
                   "pending_confirmation" >> IN
    IF hasSupplierItems \/ hasNonSupplierItems
    THEN Append(tags, "mixed_cart") ELSE tags

\* The tags CreateDraftOrder puts on the draft order.
DraftOrderTags(order, rows, partnerName) ==
    LET hasSupplierItems == \E i \in 1..Len(rows) : rows[i].isSupplierItem
        hasNonSupplierItems == \E i \in 1..Len(rows) : ~rows[i].isSupplierItem
        tags == << "partner:" \o partnerName,
                   "partner_order:" \o order.partnerOrderID,
                   "pending_confirmation" >> IN
    IF hasSupplierItems /\ hasNonSupplierItems
    THEN Append(tags, "mixed_cart") ELSE tags

\* unicode.IsSpace, for the characters a name is made of here.
IsSpace(ch) == ch \in {" ", "\t", "\n"}

\* A bug that would split at every single space, as strings.Split(s, " ").
RECURSIVE Fields_SplitAtEverySpace(_, _, _)
Fields_SplitAtEverySpace(s, i, cur) ==
    IF i > Len(s) THEN <<cur>>
    ELSE IF s[i] = " " THEN <<cur>> \o Fields_SplitAtEverySpace(s, i + 1, << >>)
    ELSE Fields_SplitAtEverySpace(s, i + 1, Append(cur, s[i]))

\* strings.Fields(s) from character i on, "cur" being the token read so far:
\* the maximal runs of characters that are not white space.
RECURSIVE Fields(_, _, _)
Fields(s, i, cur) ==
    IF i > Len(s) THEN (IF Len(cur) = 0 THEN << >> ELSE <<cur>>)
    ELSE IF IsSpace(s[i])
    THEN (IF Len(cur) = 0 THEN << >> ELSE <<cur>>) \o Fields(s, i + 1, << >>)
    ELSE Fields(s, i + 1, Append(cur, s[i]))

\* strings.Join(parts, sep)
RECURSIVE Join(_, _)
Join(parts, sep) ==
    IF Len(parts) = 0 THEN << >>
    ELSE IF Len(parts) = 1 THEN parts[1]
    ELSE parts[1] \o <<sep>> \o Join(Tail(parts), sep)

\* shopify.DraftOrderAddressInput, the two name fields as CreateDraftOrder
\* fills them from the order's customer name.
DraftOrderAddressInput(customerName) ==
    LET nameParts == Fields(customerName, 1, << >>) IN
    [ firstName |-> IF Len(nameParts) > 0 THEN nameParts[1] ELSE << >>,
      lastName |-> IF Len(nameParts) > 1
                   THEN stringPtr(Join(Tail(nameParts), " "))
                   ELSE NilString ]

\* CreateDraftOrder dereferences item.ProductURL when it builds the custom
\* attributes of a line that is not a supplier line, before it tests the
\* pointer for nil: such a line with no product URL is a nil dereference.
DereferencesNil(item) ==
    /\ ~(item.isSupplierItem /\ item.shopifyVariantID # NoID)
    /\ item.productURL = Nil

\* shopify.DraftOrderLineItemInput as CreateDraftOrder builds it for one item:
\* a supplier item by its variant and quantity, any other item as a custom
\* line with title, price and quantity, the product URL in the title and as a
\* custom attribute.
DraftOrderLineItemInput(item) ==
    IF item.isSupplierItem /\ item.shopifyVariantID # NoID
    THEN [ variantID |-> "gid://shopify/ProductVariant/" \o ToString(item.shopifyVariantID),
           title |-> Nil, originalUnitPrice |-> Nil,
           quantity |-> item.quantity, customAttributes |-> << >> ]
    ELSE [ variantID |-> Nil,
           title |-> IF item.productURL # Nil
                     THEN item.title \o " (URL: " \o item.productURL \o ")"
                     ELSE item.title,
           originalUnitPrice |-> ToString(item.price) \o ".00",
           quantity |-> item.quantity,
           customAttributes |-> IF item.productURL = Nil THEN << >>
                                ELSE << [key |-> "product_url", value |-> item.productURL] >> ]

\* What a step returns for an outcome of the platform call: after an answer
\* without user errors, the id extracted from the GID in the answer, or the
\* extraction's error; otherwise the call's error and no id.
StepResult(type, outcome, n) ==
    IF outcome # "ok" THEN [outcome |-> outcome, id |-> NoID]
    ELSE LET extracted == extractIDFromGID(ResponseGID(type, n)) IN
         IF extracted.err # Nil THEN [outcome |-> "no_id", id |-> NoID]
         ELSE [outcome |-> "ok", id |-> extracted.id]

\* A bug that would call the platform again after a failed attempt.
CreateDraftOrder_RetriesOnFailure(c) ==
    /\ cart[c].pc = "draft"
    /\ LET rows == items[cart[c].orderID] IN
          IF \E i \in 1..Len(rows) : DereferencesNil(rows[i])
          THEN cart' = [cart EXCEPT ![c].stepA = "panic", ![c].pc = "done", ![c].code = 500]
          ELSE \E outcome \in {"ok"} \cup DownstreamFailures :
                  LET result == StepResult("DraftOrder", outcome, 100 + cart[c].orderID) IN
                  cart' = [cart EXCEPT
                      ![c].stepA = result.outcome,
                      ![c].callsA = cart[c].callsA + 1,
                      ![c].errA = StepError("A", result.outcome),
                      ![c].lineItems = [i \in 1..Len(rows) |-> DraftOrderLineItemInput(rows[i])],
                      ![c].tags = DraftOrderTags(orders[cart[c].orderID], rows,
                                                 PartnerName(cart[c].partnerID)),
                      ![c].shippingAddr =
                          DraftOrderAddressInput(orders[cart[c].orderID].customerName),
                      ![c].draftOrderID = result.id,
                      ![c].pc = IF result.outcome = "ok" THEN "store_draft"
                                ELSE IF cart[c].callsA = 0 THEN "draft" ELSE "idempotency"]
    /\ UNCHANGED <<store, admin, gets, shopify>>

\* Step A: shopifyService.CreateDraftOrder builds the line items and submits
\* the draft order; it returns an id or an error. A nil dereference while the
\* line items are built panics: gin's Recovery answers 500 and the handler
\* does not go on.
CreateDraftOrder(c) ==
    /\ cart[c].pc = "draft"
    /\ LET rows == items[cart[c].orderID] IN
          IF \E i \in 1..Len(rows) : DereferencesNil(rows[i])
          THEN cart' = [cart EXCEPT ![c].stepA = "panic", ![c].pc = "done", ![c].code = 500]
          ELSE \E outcome \in {"ok"} \cup DownstreamFailures :
                  LET result == StepResult("DraftOrder", outcome, 100 + cart[c].orderID) IN
                  cart' = [cart EXCEPT
                      ![c].stepA = result.outcome,
                      ![c].callsA = cart[c].callsA + 1,
                      ![c].errA = StepError("A", result.outcome),
                      ![c].lineItems = [i \in 1..Len(rows) |-> DraftOrderLineItemInput(rows[i])],
                      ![c].tags = DraftOrderTags(orders[cart[c].orderID], rows,
                                                 PartnerName(cart[c].partnerID)),
                      ![c].shippingAddr =
                          DraftOrderAddressInput(orders[cart[c].orderID].customerName),
                      ![c].draftOrderID = result.id,
                      ![c].pc = IF result.outcome = "ok" THEN "store_draft" ELSE "idempotency"]
    /\ UNCHANGED <<store, admin, gets, shopify>>

\* The draft order id is stored on the order; a store error is only logged.
UpdateShopifyDraftOrderID(c) ==
    /\ cart[c].pc = "store_draft"
    /\ \E ok \in BOOLEAN :
          /\ orders' = IF ok
                       THEN [orders EXCEPT ![cart[c].orderID].shopifyDraftOrderID =
                                               cart[c].draftOrderID]
                       ELSE orders
          /\ cart' = [cart EXCEPT ![c].draftStored = ok, ![c].pc = "complete"]
    /\ UNCHANGED <<items, events, idem, skuMappings, admin, gets, shopify>>

\* A bug that would fail the request when Step B fails.
CompleteDraftOrder_FailsRequest(c) ==
    /\ cart[c].pc = "complete"
    /\ \E outcome \in {"ok"} \cup DownstreamFailures :
          LET result == StepResult("Order", outcome, 1000 + cart[c].draftOrderID) IN
          cart' = [cart EXCEPT
              ![c].stepB = result.outcome,
              ![c].callsB = cart[c].callsB + 1,
              ![c].errB = StepError("B", result.outcome),
              ![c].shopifyOrderID = result.id,
              ![c].pc = IF result.outcome = "ok" THEN "store_order" ELSE "done",
              ![c].code = IF result.outcome = "ok" THEN 0 ELSE 500]
    /\ UNCHANGED <<store, admin, gets, shopify>>

\* Step B: shopifyService.CompleteDraftOrder names the draft order by its GID
\* and returns the id of the order in the answer, or an error.
CompleteDraftOrder(c) ==
    /\ cart[c].pc = "complete"
    /\ \E outcome \in {"ok"} \cup DownstreamFailures :
          LET result == StepResult("Order", outcome, 1000 + cart[c].draftOrderID) IN
          cart' = [cart EXCEPT
              ![c].stepB = result.outcome,
              ![c].callsB = cart[c].callsB + 1,
              ![c].errB = StepError("B", result.outcome),
              ![c].shopifyOrderID = result.id,
              ![c].pc = IF result.outcome = "ok" THEN "store_order" ELSE "idempotency"]
    /\ UNCHANGED <<store, admin, gets, shopify>>

\* A bug that would confirm the order when its downstream order is stored.
UpdateShopifyOrderID_ConfirmsOrder(c) ==
    /\ cart[c].pc = "store_order"
    /\ \E ok \in BOOLEAN :
          /\ orders' = IF ok
                       THEN [orders EXCEPT ![cart[c].orderID].shopifyOrderID =
                                               cart[c].shopifyOrderID,
                                           ![cart[c].orderID].status =
                                               OrderStatusConfirmed]
                       ELSE orders
          /\ cart' = [cart EXCEPT ![c].orderStored = ok, ![c].pc = "idempotency"]
    /\ UNCHANGED <<items, events, idem, skuMappings, admin, gets, shopify>>

\* The Shopify order id is stored on the order; a store error is only logged.
UpdateShopifyOrderID(c) ==
    /\ cart[c].pc = "store_order"
    /\ \E ok \in BOOLEAN :
          /\ orders' = IF ok
                       THEN [orders EXCEPT ![cart[c].orderID].shopifyOrderID =
                                               cart[c].shopifyOrderID]
                       ELSE orders
          /\ cart' = [cart EXCEPT ![c].orderStored = ok, ![c].pc = "idempotency"]
    /\ UNCHANGED <<items, events, idem, skuMappings, admin, gets, shopify>>

\* A bug that would store a record whether or not a key was given.
StoreIdempotencyKey_StoresEmptyKey(c) ==
    /\ cart[c].pc = "idempotency"
    /\ \E ok \in BOOLEAN :
          idem' = IF ok /\ GetByKey(cart[c].key) = {}
                  THEN idem \cup { IdempotencyKey(cart[c].key, cart[c].partnerID,
                                                  cart[c].orderID,
                                                  RequestHash(cart[c].body)) }
                  ELSE idem
    /\ cart' = [cart EXCEPT ![c].pc = "done", ![c].code = 200,
                            ![c].respOrderID = cart[c].orderID]
    /\ UNCHANGED <<orders, items, events, skuMappings, admin, gets, shopify>>

\* A bug that would store the hash of an empty body (the body having been
\* consumed by the JSON binding) instead of the request's hash.
StoreIdempotencyKey_EmptyBodyHash(c) ==
    /\ cart[c].pc = "idempotency"
    /\ \E ok \in BOOLEAN :
          idem' = IF cart[c].key # Nil /\ ok /\ GetByKey(cart[c].key) = {}
                  THEN idem \cup { IdempotencyKey(cart[c].key, cart[c].partnerID,
                                                  cart[c].orderID, RequestHash(NoBody)) }
                  ELSE idem
    /\ cart' = [cart EXCEPT ![c].pc = "done", ![c].code = 200,
                            ![c].respOrderID = cart[c].orderID]
    /\ UNCHANGED <<orders, items, events, skuMappings, admin, gets, shopify>>

\* A bug that would answer 500 when the idempotency key cannot be stored.
StoreIdempotencyKey_FailsRequest(c) ==
    /\ cart[c].pc = "idempotency"
    /\ \E ok \in BOOLEAN :
          LET stored == cart[c].key # Nil /\ ok /\ GetByKey(cart[c].key) = {} IN
          /\ idem' = IF stored
                     THEN idem \cup { IdempotencyKey(cart[c].key, cart[c].partnerID,
                                                     cart[c].orderID,
                                                     RequestHash(cart[c].body)) }
                     ELSE idem
          /\ cart' = IF stored \/ cart[c].key = Nil
                     THEN [cart EXCEPT ![c].pc = "done", ![c].code = 200,
                                       ![c].respOrderID = cart[c].orderID]
                     ELSE [cart EXCEPT ![c].pc = "done", ![c].code = 500]
    /\ UNCHANGED <<orders, items, events, skuMappings, admin, gets, shopify>>

\* HandleCartSubmit, end: store the idempotency key if one was given (the
\* store refuses a second row for a key; any error is only logged) and
\* answer 200 with the created order.
StoreIdempotencyKey(c) ==
    /\ cart[c].pc = "idempotency"
    /\ \E ok \in BOOLEAN :
          idem' = IF cart[c].key # Nil /\ ok /\ GetByKey(cart[c].key) = {}
                  THEN idem \cup { IdempotencyKey(cart[c].key, cart[c].partnerID,
                                                  cart[c].orderID,
                                                  RequestHash(cart[c].body)) }
                  ELSE idem
    /\ cart' = [cart EXCEPT ![c].pc = "done", ![c].code = 200,
                            ![c].respOrderID = cart[c].orderID]
    /\ UNCHANGED <<orders, items, events, skuMappings, admin, gets, shopify>>

\* ------------------------------------------------- partner order reads
GetIDs == 1..MaxGet

\* An id parameter that is not an order id.
BadID == -1

\* The body of an answer that carries no order: gin.H{"error": ...}.
ErrorResponse(msg) == [error |-> msg, order |-> NoOrder, items |-> << >>]

\* OrderResponse: the order's fields and its items.
OrderResponse(order, rows) == [error |-> Nil, order |-> order, items |-> rows]

IdleGet ==
    [ pc |-> "idle", partnerID |-> Nil, orderID |-> 0, found |-> FALSE,
      order |-> NoOrder, code |-> 0, response |-> ErrorResponse(Nil) ]

\* A client sends GET /v1/orders/:id; the authentication in front of the
\* handler puts the partner in the context, or none.
GetOrderRequest(g, partners) ==
    /\ gets[g].pc = "idle"
    /\ \A h \in GetIDs : h < g => gets[h].pc # "idle"
    /\ \E partnerID \in partners \cup {Nil}, id \in OrderIDs \cup {BadID} :
          gets' = [gets EXCEPT ![g] =
                     [ IdleGet EXCEPT !.pc = "handler", !.partnerID = partnerID,
                                      !.orderID = id ]]
    /\ UNCHANGED <<store, admin, cart, shopify>>

\* A bug that would leave out the ownership test.
HandleGetOrder_NoOwnerCheck(g) ==
    /\ gets[g].pc = "handler"
    /\ IF gets[g].partnerID = Nil
       THEN gets' = [gets EXCEPT ![g].pc = "done", ![g].code = 401,
                                 ![g].response = ErrorResponse("unauthorized")]
       ELSE IF gets[g].orderID = BadID
       THEN gets' = [gets EXCEPT ![g].pc = "done", ![g].code = 400,
                                 ![g].response = ErrorResponse("invalid order ID")]
       ELSE \E ok \in BOOLEAN :
              LET order == GetByID(orders, gets[g].orderID) IN
              IF ~ok
              THEN gets' = [gets EXCEPT ![g].pc = "done", ![g].code = 500,
                                        ![g].response = ErrorResponse("internal error")]
              ELSE IF order = NoOrder
              THEN gets' = [gets EXCEPT ![g].pc = "done", ![g].code = 404,
                                        ![g].response = ErrorResponse("order not found")]
              ELSE gets' = [gets EXCEPT ![g].pc = "items", ![g].found = TRUE,
                                        ![g].order = order]
    /\ UNCHANGED <<store, admin, cart, shopify>>

\* HandleGetOrder, first half: the partner from the context (401 without
\* one), the id parameter (400 if it is not an id), the order (404 if there
\* is none, 500 on any other error) and the ownership test (403).
HandleGetOrder(g) ==
    /\ gets[g].pc = "handler"
    /\ IF gets[g].partnerID = Nil
       THEN gets' = [gets EXCEPT ![g].pc = "done", ![g].code = 401,
                                 ![g].response = ErrorResponse("unauthorized")]
       ELSE IF gets[g].orderID = BadID
       THEN gets' = [gets EXCEPT ![g].pc = "done", ![g].code = 400,
                                 ![g].response = ErrorResponse("invalid order ID")]
       ELSE \E ok \in BOOLEAN :
              LET order == GetByID(orders, gets[g].orderID) IN
              IF ~ok
              THEN gets' = [gets EXCEPT ![g].pc = "done", ![g].code = 500,
                                        ![g].response = ErrorResponse("internal error")]
              ELSE IF order = NoOrder
              THEN gets' = [gets EXCEPT ![g].pc = "done", ![g].code = 404,
                                        ![g].response = ErrorResponse("order not found")]
              ELSE IF order.partnerID # gets[g].partnerID
              THEN gets' = [gets EXCEPT ![g].pc = "done", ![g].code = 403,
                                        ![g].found = TRUE,
                                        ![g].response = ErrorResponse("access denied")]
              ELSE gets' = [gets EXCEPT ![g].pc = "items", ![g].found = TRUE,
                                        ![g].order = order]
    /\ UNCHANGED <<store, admin, cart, shopify>>

\* HandleGetOrder, second half: the items of the order (500 on error; no row
\* is an empty list) and the answer built from the order and the items.
GetOrderItems(g) ==
    /\ gets[g].pc = "items"
    /\ \E ok \in BOOLEAN :
          IF ~ok
          THEN gets' = [gets EXCEPT ![g].pc = "done", ![g].code = 500,
                                    ![g].order = NoOrder,
                                    ![g].response = ErrorResponse("internal error")]
          ELSE gets' = [gets EXCEPT
                          ![g].pc = "done", ![g].code = 200,
                          ![g].response =
                              OrderResponse(gets[g].order,
                                            IF gets[g].orderID \in DOMAIN items
                                            THEN items[gets[g].orderID] ELSE << >>)]
    /\ UNCHANGED <<store, admin, cart, shopify>>

GetStep(g) == HandleGetOrder(g) \/ GetOrderItems(g)

\* ---------------------------------------------------------- specification
\* The mapping store of the replay and race scenarios: A active, B without a
\* row, C inactive.
CatalogStore == StoreOf([s \in SKUs |-> CASE s = "A" -> "active"
                                          [] s = "B" -> "missing"
                                          [] OTHER -> "inactive"])

\* One stored order, in any status the enum allows, and one id with no row.
\* A rejected order carries the reason it was rejected with, a shipped or
\* delivered order the tracking it was shipped with.
LifecycleInit ==
    /\ \E s \in OrderStatuses :
          orders = [i \in {1} |->
                      [ SupplierOrder(1, "p1", "po-1", s) EXCEPT
                          !.rejectionReason =
                              IF s = OrderStatusRejected THEN "discontinued" ELSE Nil,
                          !.trackingCarrier =
                              IF s \in {OrderStatusShipped, OrderStatusDelivered}
                              THEN "ups" ELSE Nil,
                          !.trackingNumber =
                              IF s \in {OrderStatusShipped, OrderStatusDelivered}
                              THEN "trk-0" ELSE Nil ]]
    /\ items = [i \in {1} |->
                  <<SupplierOrderItem(1, CartItem("A"), [s \in {"A"} |-> CatalogStore["A"]])>>]
    /\ events = << >>
    /\ idem = {}
    /\ skuMappings = CatalogStore
    /\ admin = [a \in AdminIDs |-> IdleAdmin]
    /\ cart = [c \in CartIDs |-> IdleCart]
    /\ gets = [g \in GetIDs |-> IdleGet]
    /\ shopify = Platform

AdminStep(a) ==
    \/ HandleConfirmOrder(a)
    \/ LoadAndValidate(a)
    \/ ConfirmOrder(a)
    \/ RejectOrder(a)
    \/ ShipOrder(a)
    \/ UpdateFails(a)
    \/ LogEvent(a)
    \/ LogEventFails(a)
    \/ Respond(a)

\* Concurrent admin requests: any interleaving of their repository calls.
LifecycleNext ==
    \E a \in 1..MaxConcurrent : NewRouter(a) \/ AdminStep(a)

LifecycleSpec == LifecycleInit /\ [][LifecycleNext]_vars

\* One client issuing admin requests one after the other.
SequentialNext ==
    \E a \in AdminIDs :
        \/ (\A b \in AdminIDs : admin[b].pc \in {"idle", "done"}) /\ NewRouter(a)
        \/ AdminStep(a)

SequentialSpec == LifecycleInit /\ [][SequentialNext]_vars

\* An empty store with the catalog's mappings.
CartInit ==
    /\ orders = [o \in {} |-> NoOrder]
    /\ items = [o \in {} |-> << >>]
    /\ events = << >>
    /\ idem = {}
    /\ skuMappings = CatalogStore
    /\ admin = [a \in AdminIDs |-> IdleAdmin]
    /\ cart = [c \in CartIDs |-> IdleCart]
    /\ gets = [g \in GetIDs |-> IdleGet]
    /\ shopify = Platform

\* The steps of HandleCartSubmit behind the middleware.
CartStep(c) ==
    \/ IdempotencyMiddleware(c)
    \/ ReturnExistingOrder(c)
    \/ CheckCart(c)
    \/ CreateOrderFromCart(c)
    \/ CreateBatch(c)
    \/ LogOrderCreated(c)
    \/ GetByOrderID(c)
    \/ CreateDraftOrder(c)
    \/ UpdateShopifyDraftOrderID(c)
    \/ CompleteDraftOrder(c)
    \/ UpdateShopifyOrderID(c)
    \/ StoreIdempotencyKey(c)

\* One partner submitting carts one after the other.
CartNext ==
    \E c \in CartIDs :
        \/ (\A d \in CartIDs : cart[d].pc \in {"idle", "done"}) /\ Submit(c, {"p1"}, Keys, Bodies)
        \/ CartStep(c)

CartSpec == CartInit /\ [][CartNext]_vars

\* Concurrent submissions carrying the same idempotency key.
RaceNext ==
    \E c \in 1..MaxRace : Submit(c, {"p1"}, {"key-1"}, Bodies) \/ CartStep(c)

RaceSpec == CartInit /\ [][RaceNext]_vars

\* Classification and order creation on every cart and every mapping store.
ClassifyInit ==
    /\ orders = [o \in {} |-> NoOrder]
    /\ items = [o \in {} |-> << >>]
    /\ events = << >>
    /\ idem = {}
    /\ \E f \in MappingStores : skuMappings = StoreOf(f)
    /\ admin = [a \in AdminIDs |-> IdleAdmin]
    /\ cart = [c \in CartIDs |-> IdleCart]
    /\ gets = [g \in GetIDs |-> IdleGet]
    /\ shopify = Platform

ClassifyNext ==
    \/ Submit(1, {"p1"}, {Nil}, AllBodies)
    \/ IdempotencyMiddleware(1)
    \/ CheckCart(1)
    \/ CreateOrderFromCart(1)
    \/ CreateBatch(1)

ClassifySpec == ClassifyInit /\ [][ClassifyNext]_vars

\* One cart submission, of any cart, through the whole handler.
SagaStep(c) ==
    \/ IdempotencyMiddleware(c)
    \/ CheckCart(c)
    \/ CreateOrderFromCart(c)
    \/ CreateBatch(c)
    \/ LogOrderCreated(c)
    \/ GetByOrderID(c)
    \/ CreateDraftOrder(c)
    \/ UpdateShopifyDraftOrderID(c)
    \/ CompleteDraftOrder(c)
    \/ UpdateShopifyOrderID(c)
    \/ StoreIdempotencyKey(c)

SagaNext ==
    \/ Submit(1, {"p1"}, Keys, AllBodies)
    \/ SagaStep(1)

SagaSpec == CartInit /\ [][SagaNext]_vars

\* Concurrent submissions by two partners, with and without a key, of carts
\* under two partner order ids, followed up to the end of CreateOrderFromCart's
\* inserts: no key is recorded, so every submission is Fresh and reaches the
\* order insert.
UniqueBodies ==
    { CartSubmitRequest("po-1", <<"A">>), CartSubmitRequest("po-2", <<"A", "B">>) }

UniqueNext ==
    \E c \in 1..MaxRace :
        \/ Submit(c, Partners, Keys, UniqueBodies)
        \/ IdempotencyMiddleware(c)
        \/ CheckCart(c)
        \/ CreateOrderFromCart(c)
        \/ CreateBatch(c)

UniqueSpec == CartInit /\ [][UniqueNext]_vars

\* One admin request on the stored order and one cart submission, running
\* concurrently.
AuditNext ==
    \/ NewRouter(1)
    \/ AdminStep(1)
    \/ Submit(1, {"p1"}, Keys, UniqueBodies)
    \/ SagaStep(1)

AuditSpec == LifecycleInit /\ [][AuditNext]_vars

\* The characters of the texts the platform may answer with: the separator,
\* a digit, a letter and a sign.
GIDChars == {Slash, "7", "x", "-"}

\* Every text of at most MaxGIDLen characters, the empty text included.
GIDTexts == {<< >>} \cup SeqsUpTo(GIDChars, MaxGIDLen)

\* An empty store, and a platform that answers every successful mutation with
\* the GID of the object or with one given text.
GIDInit ==
    /\ orders = [o \in {} |-> NoOrder]
    /\ items = [o \in {} |-> << >>]
    /\ events = << >>
    /\ idem = {}
    /\ skuMappings = CatalogStore
    /\ admin = [a \in AdminIDs |-> IdleAdmin]
    /\ cart = [c \in CartIDs |-> IdleCart]
    /\ gets = [g \in GetIDs |-> IdleGet]
    /\ shopify \in {Platform} \cup {[answers |-> "text", text |-> t] : t \in GIDTexts}

\* One submission of a supplier cart through the whole handler.
GIDNext ==
    \/ Submit(1, {"p1"}, {Nil}, {CartSubmitRequest("po-1", <<"A">>)})
    \/ SagaStep(1)

GIDSpec == GIDInit /\ [][GIDNext]_vars

\* The characters of a customer name: two letters, a space and a tab.
NameChars == {"a", "b", " ", "\t"}

\* A supplier cart under every customer name of at most MaxNameLen characters
\* (the binding requires the name: it is not empty).
NameBodies ==
    { [CartSubmitRequest("po-1", <<"A">>) EXCEPT !.customerName = name] :
          name \in SeqsUpTo(NameChars, MaxNameLen) }

\* One submission, followed until Step A has built the draft order.
NameNext ==
    \/ Submit(1, {"p1"}, {Nil}, NameBodies)
    \/ IdempotencyMiddleware(1)
    \/ CheckCart(1)
    \/ CreateOrderFromCart(1)
    \/ CreateBatch(1)
    \/ LogOrderCreated(1)
    \/ GetByOrderID(1)
    \/ CreateDraftOrder(1)

NameSpec == CartInit /\ [][NameNext]_vars

\* Every kind of request against one store. An admin request, on the stored
\* order or on the order the cart creates, runs concurrently with a cart
\* submission; when no request is in flight a second submission of the same
\* cart under the same key (a replay when the first recorded its key) and a
\* partner's read of an order follow, one after the other.
FrameBodies == {CartSubmitRequest("po-2", <<"A", "B">>)}

Quiet ==
    /\ admin[1].pc \in {"idle", "done"}
    /\ \A c \in CartIDs : cart[c].pc \in {"idle", "done"}
    /\ gets[1].pc \in {"idle", "done"}

FrameNext ==
    \/ cart[2].pc = "idle" /\ gets[1].pc = "idle" /\ NewRouter(1)
    \/ AdminStep(1)
    \/ gets[1].pc = "idle" /\ Submit(1, {"p1"}, {"key-1"}, FrameBodies)
    \/ CartStep(1)
    \/ Quiet /\ Submit(2, {"p1"}, {"key-1"}, FrameBodies)
    \/ CartStep(2)
    \/ Quiet /\ GetOrderRequest(1, {"p1"})
    \/ GetStep(1)

\* The stored order is still to be confirmed, or confirmed and to be shipped.
FrameInit ==
    /\ LifecycleInit
    /\ orders[1].status \in {OrderStatusPendingConfirmation, OrderStatusConfirmed}

FrameSpec == FrameInit /\ [][FrameNext]_vars

\* Reads by either partner, or by no authenticated partner, of the stored
\* order (owned by p1), of the order a concurrent submission by p2 creates,
\* of an id with no row and of a text that is no id.
IsolationNext ==
    \/ \E g \in 1..MaxGet : GetOrderRequest(g, Partners) \/ GetStep(g)
    \/ Submit(1, {"p2"}, {Nil}, {CartSubmitRequest("po-2", <<"A">>)})
    \/ IdempotencyMiddleware(1)
    \/ CheckCart(1)
    \/ CreateOrderFromCart(1)
    \/ CreateBatch(1)

IsolationSpec == FrameInit /\ [][IsolationNext]_vars

\* Two partners submitting the same cart under the same key, one after the
\* other.
RecordNext ==
    \E c \in CartIDs :
        \/ (\A d \in CartIDs : cart[d].pc \in {"idle", "done"})
           /\ Submit(c, Partners, {"key-1"}, {CartSubmitRequest("po-1", <<"A">>)})
        \/ CartStep(c)

RecordSpec == CartInit /\ [][RecordNext]_vars

\* ------------------------------------------------------------------ claims
TerminalStatuses == {OrderStatusRejected, OrderStatusDelivered, OrderStatusCancelled}

\* The transition table as the specification lists it.
TransitionTable(s) ==
    CASE s = OrderStatusPendingConfirmation ->
            {OrderStatusConfirmed, OrderStatusRejected, OrderStatusCancelled}
      [] s = OrderStatusConfirmed -> {OrderStatusShipped, OrderStatusCancelled}
      [] s = OrderStatusShipped -> {OrderStatusDelivered}
      [] OTHER -> {}

\* C1: for every pair of statuses (s, t), CanTransitionTo(s, t) is true exactly
\* when the table lists t for s (so it is false for every self-transition and
\* every terminal source), and every validation an admin request has made
\* was decided that way.
C1_CanTransitionToMatchesTable ==
    /\ \A s, t \in OrderStatuses : CanTransitionTo(s, t) <=> t \in TransitionTable(s)
    /\ \A s \in OrderStatuses : ~CanTransitionTo(s, s)
    /\ \A s \in TerminalStatuses, t \in OrderStatuses : ~CanTransitionTo(s, t)
    /\ \A a \in AdminIDs :
          admin[a].from # Nil =>
             ( admin[a].err = "invalid_state_transition"
               <=> Target(admin[a].kind) \notin TransitionTable(admin[a].from) )

\* A confirm was allowed from PENDING_CONFIRMATION and a reject was then
\* refused from CONFIRMED.
C1_Witness ==
    \E a, b \in AdminIDs :
        /\ admin[a].kind = "confirm" /\ admin[a].code = 200
        /\ admin[a].from = OrderStatusPendingConfirmation
        /\ admin[b].kind = "reject" /\ admin[b].err = "invalid_state_transition"
        /\ admin[b].errFrom = OrderStatusConfirmed

\* C2: under any interleaving of confirm, reject and ship requests, every
\* change of an order's stored status goes from s to t with
\* CanTransitionTo(s, t); a terminal status never changes again.
C2_EveryStoredChangeAllowed ==
    [][ \A o \in DOMAIN orders :
            orders'[o].status # orders[o].status =>
                CanTransitionTo(orders[o].status, orders'[o].status) ]_vars

\* C7: a reject whose order is currently REJECTED, DELIVERED or CANCELLED
\* fails with an invalid-state-transition error carrying from = the current
\* status and to = REJECTED, changes no order row and appends no event; a
\* finished request does nothing more.
C7_RejectTerminalFails ==
    [][ \A a \in AdminIDs :
            /\ admin[a].pc = "done" => admin'[a] = admin[a]
            /\ ( /\ admin[a].kind = "reject"
                 /\ admin[a].pc = "service"
                 /\ admin'[a] # admin[a]
                 /\ GetByID(orders, admin[a].orderID) # NoOrder
                 /\ GetByID(orders, admin[a].orderID).status \in TerminalStatuses )
               => ( /\ admin'[a].pc = "done"
                    /\ admin'[a].code = 400
                    /\ admin'[a].err = "invalid_state_transition"
                    /\ admin'[a].errFrom = GetByID(orders, admin[a].orderID).status
                    /\ admin'[a].errTo = OrderStatusRejected
                    /\ orders' = orders
                    /\ events' = events ) ]_vars

\* A second reject was refused on an order that a first reject had moved
\* to REJECTED, and the row still carries the first reject's outcome.
C7_Witness ==
    \E a, b \in AdminIDs :
        /\ admin[a].kind = "reject" /\ admin[a].code = 200
        /\ admin[b].kind = "reject" /\ admin[b].pc = "done"
        /\ admin[b].err = "invalid_state_transition"
        /\ admin[b].errFrom = OrderStatusRejected
        /\ admin[b].errTo = OrderStatusRejected
        /\ orders[admin[b].orderID].status = OrderStatusRejected
        /\ Len(events) = 1

\* C8 (as amended): with requests issued one after the other, a confirm on a
\* PENDING_CONFIRMATION order and a ship on a CONFIRMED order pass the
\* validation, store CONFIRMED and SHIPPED and are answered 200 with that
\* status; an operation the current status does not allow (such as ship on
\* a PENDING_CONFIRMATION order) fails with an invalid-state-transition error
\* and changes nothing; and no operation ever stores DELIVERED.
C8_ConfirmThenShip ==
    [][ /\ \A a \in AdminIDs :
              LET order == GetByID(orders, admin[a].orderID)
                  to == Target(admin[a].kind) IN
              /\ ( /\ admin[a].pc = "service" /\ admin'[a] # admin[a]
                   /\ order # NoOrder
                   /\ \/ admin[a].kind = "confirm"
                         /\ order.status = OrderStatusPendingConfirmation
                      \/ admin[a].kind = "ship"
                         /\ order.status = OrderStatusConfirmed )
                 => admin'[a].pc = "update"
              /\ ( /\ admin[a].pc = "service" /\ admin'[a] # admin[a]
                   /\ order # NoOrder
                   /\ to \notin TransitionTable(order.status) )
                 => ( /\ admin'[a].pc = "done" /\ admin'[a].code = 400
                      /\ admin'[a].err = "invalid_state_transition"
                      /\ admin'[a].errFrom = order.status /\ admin'[a].errTo = to
                      /\ orders' = orders /\ events' = events )
              /\ (admin[a].pc = "update" /\ admin'[a].pc = "event")
                 => orders'[admin[a].orderID].status = to
              /\ (admin[a].pc = "respond" /\ admin'[a].pc = "done")
                 => (admin'[a].code = 200 /\ admin'[a].respStatus = to)
              /\ ( /\ admin[a].pc # "done" /\ admin'[a].pc = "done"
                   /\ admin'[a].kind = "deliver" )
                 => (admin'[a].code = 404 /\ orders' = orders)
        /\ \A o \in DOMAIN orders :
              orders'[o].status = OrderStatusDelivered
                 => orders[o].status = OrderStatusDelivered ]_vars

\* Confirm, then ship, then a deliver request on a fresh order: the first two
\* were answered 200 with CONFIRMED and SHIPPED, the third found no
\* operation, and the order is still SHIPPED.
C8_Witness ==
    \E a1, a2, a3 \in AdminIDs :
        /\ admin[a1].kind = "confirm" /\ admin[a1].code = 200
        /\ admin[a1].from = OrderStatusPendingConfirmation
        /\ admin[a1].respStatus = OrderStatusConfirmed
        /\ admin[a2].kind = "ship" /\ admin[a2].code = 200
        /\ admin[a2].respStatus = OrderStatusShipped
        /\ a1 \in admin[a2].after
        /\ admin[a3].kind = "deliver" /\ admin[a3].pc = "done"
        /\ admin[a3].code = 404
        /\ a2 \in admin[a3].after
        /\ admin[a1].orderID = 1 /\ admin[a2].orderID = 1 /\ admin[a3].orderID = 1
        /\ orders[1].status = OrderStatusShipped

\* C8 (as stated): on a fresh order, Confirm then Ship then Deliver, issued
\* one after the other, each succeed, leaving the status CONFIRMED, SHIPPED,
\* DELIVERED.
C8_ConfirmShipDeliverSucceed ==
    \A a1, a2, a3 \in AdminIDs :
        ( /\ admin[a1].kind = "confirm" /\ admin[a1].code = 200
          /\ admin[a1].from = OrderStatusPendingConfirmation
          /\ admin[a1].respStatus = OrderStatusConfirmed
          /\ admin[a2].kind = "ship" /\ admin[a2].code = 200
          /\ admin[a2].respStatus = OrderStatusShipped
          /\ a1 \in admin[a2].after
          /\ admin[a3].kind = "deliver" /\ admin[a3].pc = "done"
          /\ a2 \in admin[a3].after
          /\ admin[a1].orderID = admin[a2].orderID
          /\ admin[a2].orderID = admin[a3].orderID )
        => ( /\ admin[a3].code = 200
             /\ orders[admin[a3].orderID].status = OrderStatusDelivered )

\* The orders stored for a partner order id of a partner.
OrdersFor(partnerID, partnerOrderID) ==
    {o \in DOMAIN orders : /\ orders[o].partnerID = partnerID
                           /\ orders[o].partnerOrderID = partnerOrderID}

C4_ConflictRejected ==
    [][ \A c \in CartIDs :
            /\ cart[c].outcome = "conflict" => cart'[c] = cart[c]
            /\ ( /\ cart[c].pc = "middleware"
                 /\ cart'[c] # cart[c]
                 /\ \E r \in GetByKey(cart[c].key) :
                        r.requestHash # RequestHash(cart[c].body) )
               => ( /\ cart'[c].pc = "done"
                    /\ cart'[c].outcome = "conflict"
                    /\ cart'[c].code = 409
                    /\ cart'[c].orderID = NoID
                    /\ orders' = orders
                    /\ items' = items
                    /\ idem' = idem ) ]_vars

\* A second submission reused the key of a recorded order with another body
\* and was rejected; the store still holds the one order and its record.
C4_Witness ==
    \E c1, c2 \in CartIDs :
        /\ cart[c1].key = "key-1" /\ cart[c1].code = 200 /\ cart[c1].outcome = "fresh"
        /\ cart[c2].key = "key-1" /\ cart[c2].body # cart[c1].body
        /\ cart[c2].outcome = "conflict" /\ cart[c2].pc = "done"
        /\ Cardinality(DOMAIN orders) = 1
        /\ \A r \in idem : r.requestHash = RequestHash(cart[c1].body)

\* C5: of two concurrent submissions with the same key and the same body,
\* only one creates an Order and the other is answered as Replay with the
\* same order id.
C5_ConcurrentSameKeyReplays ==
    \A c1, c2 \in CartIDs :
        ( /\ c1 # c2
          /\ cart[c1].pc = "done" /\ cart[c2].pc = "done"
          /\ cart[c1].key # Nil
          /\ cart[c2].key = cart[c1].key
          /\ cart[c2].body = cart[c1].body
          /\ cart[c1].hasSupplierSKU /\ cart[c2].hasSupplierSKU
          /\ cart[c1].orderID # NoID /\ cart[c1].code = 200 )
        => ( /\ cart[c2].orderID = NoID
             /\ cart[c2].outcome = "replay"
             /\ cart[c2].respOrderID = cart[c1].orderID )

\* C6: an IdempotencyRecord is written only by a request that created its
\* order and the order's items; a request whose order insert or item batch
\* insert fails ends with no record for its key, and the next submission
\* with that key is treated as Fresh.
C6_RecordOnlyAfterOrder ==
    [][ /\ \A r \in idem' :
              /\ r.supplierOrderID \in DOMAIN orders'
              /\ r.supplierOrderID \in DOMAIN items'
              /\ \E c \in CartIDs : /\ cart'[c].key = r.key
                                    /\ cart'[c].orderID = r.supplierOrderID
                                    /\ cart'[c].pc = "done"
        /\ \A c \in CartIDs :
              ( /\ cart[c].pc \in {"create_order", "create_items"}
                /\ cart'[c].pc = "done" )
              => ( /\ cart'[c].code = 500
                   /\ GetByKey(cart[c].key)' = {} )
        /\ \A c1, c2 \in CartIDs :
              ( /\ c2 = c1 + 1
                /\ cart[c1].pc = "done" /\ cart[c1].outcome = "fresh"
                /\ cart[c1].code = 500
                /\ cart[c2].pc = "middleware"
                /\ cart[c2].key = cart[c1].key
                /\ cart'[c2] # cart[c2] )
              => cart'[c2].outcome = "fresh" ]_vars

\* A keyed submission failed at the item batch insert, no record exists, and
\* the next submission with the key has been treated as Fresh.
C6_Witness ==
    \E c1, c2 \in CartIDs :
        /\ c1 \in cart[c2].after
        /\ cart[c1].key = "key-1" /\ cart[c2].key = "key-1"
        /\ cart[c1].code = 500 /\ cart[c1].orderID # NoID
        /\ cart[c1].orderID \notin DOMAIN items
        /\ cart[c2].outcome = "fresh"
        /\ idem = {}

\* The injective maps of 1..n onto itself.
Perms(n) == {p \in [1..n -> 1..n] : \A i, j \in 1..n : p[i] = p[j] => i = j}

\* The SKUs of a cart that have an active mapping.
ActiveSKUs(cartItems) ==
    {cartItems[i].sku : i \in 1..Len(cartItems)}
        \cap {s \in SKUs : skuMappings[s] # NoMapping /\ skuMappings[s].isActive}

\* C9: the classification map of a cart has as keys exactly the cart SKUs
\* with an active mapping (with a lookup error, those whose lookup returned
\* one), each mapped to its mapping, and is the same for every ordering of
\* the cart lines.
C9_ClassificationExact ==
    \A c \in CartIDs :
        cart[c].pc \notin {"idle", "middleware", "classify"} =>
            LET cartItems == cart[c].body.items
                n == Len(cartItems)
                m == cart[c].supplierItems IN
            /\ DOMAIN m =
                  {cartItems[i].sku : i \in (1..n) \ cart[c].failing}
                      \cap {s \in SKUs : skuMappings[s] # NoMapping /\ skuMappings[s].isActive}
            /\ cart[c].failing = {} => DOMAIN m = ActiveSKUs(cartItems)
            /\ \A s \in DOMAIN m : m[s] = skuMappings[s]
            /\ cart[c].failing = {} =>
                  \A p \in Perms(n) :
                      CheckCartForSupplierSKUs([i \in 1..n |-> cartItems[p[i]]], {}, 1,
                                               EmptyMap) = m

\* The cart [A, B] was classified against a store where A is active and B
\* is inactive: only A is in the map.
C9_Witness ==
    \E c \in CartIDs :
        /\ cart[c].pc = "create_order"
        /\ cart[c].failing = {}
        /\ Len(cart[c].body.items) = 2
        /\ cart[c].body.items[1].sku = "A" /\ cart[c].body.items[2].sku = "B"
        /\ skuMappings["B"] # NoMapping /\ ~skuMappings["B"].isActive
        /\ DOMAIN cart[c].supplierItems = {"A"}

\* C10: createFromCart stores exactly one OrderItem per cart line, flagged as
\* a supplier item iff its SKU is a key of the classification map, with the
\* variant id set iff it is flagged, and then equal to the mapping's.
C10_OneItemPerLine ==
    \A c \in CartIDs :
        (cart[c].orderID # NoID /\ cart[c].orderID \in DOMAIN items) =>
            LET cartItems == cart[c].body.items
                stored == items[cart[c].orderID]
                m == cart[c].supplierItems IN
            /\ Len(stored) = Len(cartItems)
            /\ \A i \in 1..Len(cartItems) :
                  /\ stored[i].supplierOrderID = cart[c].orderID
                  /\ stored[i].sku = cartItems[i].sku
                  /\ stored[i].title = cartItems[i].title
                  /\ stored[i].price = cartItems[i].price
                  /\ stored[i].quantity = cartItems[i].quantity
                  /\ stored[i].productURL = cartItems[i].productURL
                  /\ stored[i].isSupplierItem <=> cartItems[i].sku \in DOMAIN m
                  /\ stored[i].shopifyVariantID # NoID <=> stored[i].isSupplierItem
                  /\ stored[i].isSupplierItem =>
                        stored[i].shopifyVariantID = m[cartItems[i].sku].shopifyVariantID

\* The cart [A mapped and active, B unmapped] was stored as two items: A
\* flagged with its variant id, B not flagged and without one.
C10_Witness ==
    \E c \in CartIDs :
        /\ cart[c].orderID \in DOMAIN items
        /\ skuMappings["B"] = NoMapping
        /\ Len(items[cart[c].orderID]) = 2
        /\ items[cart[c].orderID][1].sku = "A"
        /\ items[cart[c].orderID][1].isSupplierItem
        /\ items[cart[c].orderID][1].shopifyVariantID = skuMappings["A"].shopifyVariantID
        /\ items[cart[c].orderID][1].quantity = 2
        /\ items[cart[c].orderID][2].sku = "B"
        /\ ~items[cart[c].orderID][2].isSupplierItem
        /\ items[cart[c].orderID][2].shopifyVariantID = NoID

\* ------------------------------------------------------ idempotency, again
\* C23: a submission without a key is Fresh: the guard passes it to the
\* handler, it is never a Replay and names no existing order; no step of it
\* adds or changes an idempotency record, and no record has an empty key;
\* when it is answered 200 the order is the one it created itself.
C23_NoKeyAlwaysFresh ==
    [][ /\ \A c \in CartIDs :
              cart'[c].key = Nil
              => /\ cart'[c].outcome \in {Nil, "fresh"}
                 /\ cart'[c].pc # "replay"
                 /\ cart'[c].existingOrderID = NoID
                 /\ (cart[c].pc = "middleware" /\ cart'[c].pc # "middleware")
                       => cart'[c].pc = "classify"
                 /\ cart'[c] # cart[c] => idem' = idem
                 /\ (cart'[c].pc = "done" /\ cart'[c].code = 200)
                       => /\ cart'[c].respOrderID = cart'[c].orderID
                          /\ cart'[c].orderID \in DOMAIN orders'
                          /\ \A d \in CartIDs \ {c} : cart'[d].orderID # cart'[c].orderID
        /\ \A r \in idem' : r.key # Nil
      ]_vars

\* Two submissions without a key and with the same body, one after the
\* other: the first created the order, the second was again taken through
\* classification to the order insert (which the store refused), and no
\* record exists.
C23_Witness ==
    \E c1, c2 \in CartIDs :
        /\ c1 \in cart[c2].after
        /\ cart[c1].key = Nil /\ cart[c2].key = Nil
        /\ cart[c1].body = cart[c2].body
        /\ cart[c1].pc = "done" /\ cart[c1].code = 200
        /\ cart[c2].outcome = "fresh" /\ cart[c2].hasSupplierSKU
        /\ cart[c2].pc = "done" /\ cart[c2].code = 500
        /\ idem = {}

\* C24: no step of a submission answered as Replay changes the store (SKU
\* mappings, orders, items, events, idempotency records); it calls neither
\* Step A nor Step B, creates no order, and ends with the existing order.
C24_ReplayHasNoSideEffect ==
    [][ \A c \in CartIDs :
          (cart'[c].outcome = "replay" /\ cart'[c] # cart[c])
          => /\ UNCHANGED store
             /\ cart'[c].pc \in {"replay", "done"}
             /\ cart'[c].callsA = 0 /\ cart'[c].callsB = 0
             /\ cart'[c].stepA = Nil /\ cart'[c].stepB = Nil
             /\ cart'[c].orderID = NoID
             /\ cart'[c].supplierItems = EmptyMap
             /\ cart'[c].pc = "done"
                   => /\ cart'[c].code \in {200, 500}
                      /\ cart'[c].code = 200
                            => cart'[c].respOrderID = cart'[c].existingOrderID
      ]_vars

\* A replay was answered 200 with the order of the first submission, whose
\* saga had run in full: that order still has both downstream ids, and
\* there is one order, one item list, one event and one record.
C24_Witness ==
    \E c1, c2 \in CartIDs :
        /\ c1 \in cart[c2].after
        /\ cart[c2].outcome = "replay" /\ cart[c2].pc = "done" /\ cart[c2].code = 200
        /\ cart[c2].callsA = 0 /\ cart[c2].callsB = 0
        /\ cart[c1].callsA = 1 /\ cart[c1].callsB = 1
        /\ cart[c2].respOrderID = cart[c1].orderID
        /\ orders[cart[c1].orderID].shopifyDraftOrderID = cart[c1].draftOrderID
        /\ orders[cart[c1].orderID].shopifyOrderID = cart[c1].shopifyOrderID
        /\ cart[c1].shopifyOrderID # NoID
        /\ Cardinality(DOMAIN orders) = 1 /\ Cardinality(DOMAIN items) = 1
        /\ Len(events) = 1 /\ Cardinality(idem) = 1

\* ------------------------------------------------- classification, again
\* The lines of a cart from line i on, without the lines in "failing".
RECURSIVE KeepLines(_, _, _)
KeepLines(cartItems, failing, i) ==
    IF i > Len(cartItems) THEN << >>
    ELSE (IF i \in failing THEN << >> ELSE <<cartItems[i]>>)
         \o KeepLines(cartItems, failing, i + 1)

Classified(c) == cart[c].pc \notin {"idle", "middleware", "classify", "replay"}
                 /\ cart[c].outcome = "fresh"

\* C21: whatever lookups fail, classification ends with a result and no
\* error (the request goes on to the order or is answered 204; a 500 can
\* only come from a later step), and the result is the one classification
\* gives, with no lookup failing, on the cart without the failing lines:
\* a failing line counts for nothing and every other line is classified.
C21_LookupErrorNeverAborts ==
    \A c \in CartIDs :
        Classified(c)
        => /\ cart[c].supplierItems =
                 CheckCartForSupplierSKUs(
                     KeepLines(cart[c].body.items, cart[c].failing, 1), {}, 1, EmptyMap)
           /\ \A i \in 1..Len(cart[c].body.items) :
                 ( /\ i \notin cart[c].failing
                   /\ GetBySKU(cart[c].body.items[i].sku) # NoMapping
                   /\ GetBySKU(cart[c].body.items[i].sku).isActive )
                 => cart[c].body.items[i].sku \in DOMAIN cart[c].supplierItems
           /\ cart[c].code \in {0, 204, 500}
           /\ cart[c].code = 500 => cart[c].hasSupplierSKU
           /\ cart[c].code = 204 => ~cart[c].hasSupplierSKU

\* The lookup of the first line failed although its SKU has an active
\* mapping; the second line, after it, was still classified as a supplier
\* item, and the first was not.
C21_Witness ==
    \E c \in CartIDs :
        /\ Classified(c)
        /\ Len(cart[c].body.items) = 2
        /\ cart[c].failing = {1}
        /\ cart[c].body.items[1].sku # cart[c].body.items[2].sku
        /\ GetBySKU(cart[c].body.items[1].sku) # NoMapping
        /\ GetBySKU(cart[c].body.items[1].sku).isActive
        /\ DOMAIN cart[c].supplierItems = {cart[c].body.items[2].sku}
        /\ cart[c].hasSupplierSKU

\* C22: the classifier's boolean is TRUE exactly when the map it returns has
\* at least one SKU; the handler answers 204 exactly when it is FALSE.
C22_HasSupplierIffMapNonEmpty ==
    \A c \in CartIDs :
        Classified(c)
        => /\ cart[c].hasSupplierSKU <=> (DOMAIN cart[c].supplierItems # {})
           /\ cart[c].hasSupplierSKU <=> (cart[c].supplierItems # EmptyMap)
           /\ (cart[c].pc = "done" /\ cart[c].code = 204) <=> ~cart[c].hasSupplierSKU

\* A cart whose only mapping found is inactive: the lookup succeeded, the
\* map is empty and the boolean FALSE.
C22_Witness ==
    \E c \in CartIDs :
        /\ Classified(c)
        /\ cart[c].failing = {}
        /\ \E i \in 1..Len(cart[c].body.items) :
              /\ GetBySKU(cart[c].body.items[i].sku) # NoMapping
              /\ ~GetBySKU(cart[c].body.items[i].sku).isActive
        /\ cart[c].supplierItems = EmptyMap
        /\ ~cart[c].hasSupplierSKU
        /\ cart[c].code = 204

\* ------------------------------------------------------ order persistence
\* C14: in every state of the store, every order has its items and every
\* stored item list belongs to an order: a reader sees both or neither.
C14_OrderAndItemsAtomic ==
    /\ \A o \in DOMAIN orders : o \in DOMAIN items /\ Len(items[o]) >= 1
    /\ \A o \in DOMAIN items : o \in DOMAIN orders

\* C17: no two order rows share a (partner id, partner order id) pair.
C17_PartnerOrderIDUnique ==
    \A o1, o2 \in DOMAIN orders :
        ( /\ orders[o1].partnerID = orders[o2].partnerID
          /\ orders[o1].partnerOrderID = orders[o2].partnerOrderID )
        => o1 = o2

\* Two submissions of the same partner under the same partner order id both
\* reached the insert: one created the order, the other was refused; and a
\* second partner created an order under that same partner order id.
C17_Witness ==
    \E c1, c2 \in CartIDs :
        /\ c1 # c2
        /\ cart[c1].partnerID = cart[c2].partnerID
        /\ cart[c1].body.partnerOrderID = cart[c2].body.partnerOrderID
        /\ cart[c1].hasSupplierSKU /\ cart[c2].hasSupplierSKU
        /\ cart[c1].orderID \in DOMAIN orders
        /\ cart[c2].pc = "done" /\ cart[c2].code = 500 /\ cart[c2].orderID = NoID
        /\ Cardinality(DOMAIN orders) = 1

\* ------------------------------------------------- fields of a transition
Tracking(order) ==
    <<order.trackingCarrier, order.trackingNumber, order.trackingURL>>

\* C25: the update of a ship stores, in one step, the status SHIPPED with the
\* supplied carrier, tracking number and URL (none if none was given); the
\* tracking fields of an order change only in a step that leaves it SHIPPED;
\* and an order that is SHIPPED has a carrier and a tracking number.
C25_ShipStoresStatusWithTracking ==
    [][ /\ \A a \in AdminIDs :
              (admin[a].pc = "update" /\ admin[a].kind = "ship" /\ admin'[a].pc = "event")
              => /\ orders'[admin[a].orderID].status = OrderStatusShipped
                 /\ Tracking(orders'[admin[a].orderID]) =
                        <<"dhl", "trk-1", admin[a].trackingURL>>
        /\ \A o \in DOMAIN orders :
              /\ Tracking(orders'[o]) # Tracking(orders[o])
                 => orders'[o].status = OrderStatusShipped
              /\ orders[o].status = OrderStatusShipped
                 => (orders[o].trackingCarrier # Nil /\ orders[o].trackingNumber # Nil)
              /\ orders'[o].status = OrderStatusShipped
                 => (orders'[o].trackingCarrier # Nil /\ orders'[o].trackingNumber # Nil)
      ]_vars

\* A ship with a tracking URL on a CONFIRMED order was answered 200 and the
\* order is SHIPPED with the three fields.
C25_Witness ==
    \E a \in AdminIDs :
        /\ admin[a].kind = "ship" /\ admin[a].pc = "done" /\ admin[a].code = 200
        /\ admin[a].from = OrderStatusConfirmed
        /\ admin[a].trackingURL = "url"
        /\ orders[admin[a].orderID].status = OrderStatusShipped
        /\ Tracking(orders[admin[a].orderID]) = <<"dhl", "trk-1", "url">>

\* C26: an order's rejection reason is set only if its status is REJECTED;
\* the update of a reject stores the reason supplied with it; the update of
\* a confirm or a ship leaves the stored reason as it was.
C26_ReasonOnlyWhenRejected ==
    [][ /\ \A o \in DOMAIN orders :
              orders'[o].rejectionReason # Nil => orders'[o].status = OrderStatusRejected
        /\ \A a \in AdminIDs :
              (admin[a].pc = "update" /\ admin'[a].pc = "event")
              => IF admin[a].kind = "reject"
                 THEN orders'[admin[a].orderID].rejectionReason = admin[a].reason
                 ELSE orders'[admin[a].orderID].rejectionReason =
                          orders[admin[a].orderID].rejectionReason
      ]_vars

\* C27: a confirm, reject or ship that names an id with no row ends with a
\* not-found answer (404), which is neither the 400 of a refused transition
\* nor the 500 of an internal error, and no event is logged for that id.
C27_NotFoundIsDistinct ==
    \A a \in AdminIDs :
        ( /\ admin[a].pc = "done"
          /\ admin[a].kind \in {"confirm", "reject", "ship"}
          /\ admin[a].orderID \notin DOMAIN orders )
        => /\ admin[a].code = 404
           /\ admin[a].err = "not_found"
           /\ \A i \in 1..Len(events) : events[i].orderID # admin[a].orderID

\* --------------------------------------------------- errors and the audit
\* C16: a confirm, reject or ship that loads an existing order whose status
\* does not allow the target status (by the specification's table) ends at
\* once with 400 and an invalid-state-transition error carrying that status
\* as from and the target as to; and a request that ended with that error
\* was answered 400, never 500 or 200.
C16_InvalidTransitionIsClientError ==
    [][ \A a \in AdminIDs :
          LET order == GetByID(orders, admin[a].orderID)
              to == Target(admin[a].kind) IN
          /\ ( /\ admin[a].pc = "service" /\ admin'[a].pc # "service"
               /\ admin[a].kind \in {"confirm", "reject", "ship"}
               /\ order # NoOrder
               /\ to \notin TransitionTable(order.status) )
             => ( /\ admin'[a].pc = "done"
                  /\ admin'[a].code = 400
                  /\ admin'[a].code \notin {200, 500}
                  /\ admin'[a].err = "invalid_state_transition"
                  /\ admin'[a].errFrom = order.status
                  /\ admin'[a].errTo = to )
          /\ admin'[a].err = "invalid_state_transition" => admin'[a].code = 400
      ]_vars

\* A ship on an order still PENDING_CONFIRMATION was refused with 400, the
\* order unchanged.
C16_Witness ==
    \E a \in AdminIDs :
        /\ admin[a].kind = "ship" /\ admin[a].pc = "done" /\ admin[a].code = 400
        /\ admin[a].err = "invalid_state_transition"
        /\ admin[a].errFrom = OrderStatusPendingConfirmation
        /\ admin[a].errTo = OrderStatusShipped
        /\ orders[admin[a].orderID].status = OrderStatusPendingConfirmation

\* C19: the status_change event an operation appends has the target as its
\* "to" and, as its "from", the status the stored order had immediately
\* before this operation's update changed it; and an operation that is
\* refused appends nothing.
C19_EventFromIsPriorStatus ==
    [][ \A a \in AdminIDs :
          /\ (admin[a].pc = "update" /\ admin'[a].pc = "event")
             => admin[a].from = orders[admin[a].orderID].status
          /\ (admin[a].pc = "event" /\ admin'[a].pc = "respond" /\ events' # events)
             => events' = Append(events,
                                 StatusChangeEvent(admin[a].orderID, admin[a].from,
                                                   Target(admin[a].kind)))
          /\ (admin[a].pc # "done" /\ admin'[a].pc = "done" /\ admin'[a].code # 200)
             => events' = events
      ]_vars

\* C20: when the append of the audit event fails, the operation goes on as
\* if it had succeeded. For confirm, reject and ship nothing else changes,
\* the stored status is the target and the request is then answered 200; for
\* createFromCart the submission goes on to the saga with the created order
\* and is not answered with an error at that point.
C20_AuditFailureNotSurfaced ==
    [][ /\ \A a \in AdminIDs :
              /\ (admin[a].pc = "event" /\ admin'[a].pc # "event" /\ events' = events)
                 => ( /\ admin'[a].pc = "respond" /\ admin'[a].code = 0
                      /\ admin'[a].err = Nil
                      /\ orders' = orders
                      /\ orders[admin[a].orderID].status = Target(admin[a].kind) )
              /\ (admin[a].pc = "respond" /\ admin'[a].pc # "respond")
                 => ( /\ admin'[a].pc = "done" /\ admin'[a].code = 200
                      /\ admin'[a].respStatus = Target(admin[a].kind) )
        /\ \A c \in CartIDs :
              (cart[c].pc = "event" /\ cart'[c].pc # "event" /\ events' = events)
                 => ( /\ cart'[c].pc = "get_items" /\ cart'[c].code = 0
                      /\ cart'[c].orderID = cart[c].orderID
                      /\ cart[c].orderID \in DOMAIN orders
                      /\ cart[c].orderID \in DOMAIN items
                      /\ orders' = orders /\ items' = items )
      ]_vars

\* Both appends failed (the log is empty), the admin request was answered
\* 200 with the target status stored, and the cart submission was answered
\* 200 with the order it created.
C20_Witness ==
    /\ events = << >>
    /\ \E a \in AdminIDs :
          /\ admin[a].pc = "done" /\ admin[a].code = 200
          /\ admin[a].kind = "reject"
          /\ orders[admin[a].orderID].status = OrderStatusRejected
    /\ \E c \in CartIDs :
          /\ cart[c].pc = "done" /\ cart[c].code = 200
          /\ cart[c].respOrderID \in DOMAIN orders
          /\ cart[c].respOrderID = cart[c].orderID

C12_FinalizedImpliesProvisional ==
    \A o \in DOMAIN orders :
        orders[o].shopifyOrderID # NoID => orders[o].shopifyDraftOrderID # NoID

\* C13: Step B is invoked only when the provisional id Step A returned is
\* stored on the order.
C13_StepBAfterDraftStored ==
    [][ \A c \in CartIDs :
          (cart[c].pc = "complete" /\ cart'[c].pc # "complete")
             => ( /\ cart[c].draftOrderID # NoID
                  /\ orders[cart[c].orderID].shopifyDraftOrderID = cart[c].draftOrderID )
      ]_vars

\* C15: once the order and its items are created, the submission always ends
\* with 200 and the created order's id, and the order row keeps the fields
\* it was created with.
C15_SagaNeverFailsRequest ==
    \A c \in CartIDs :
        (cart[c].pc = "done" /\ cart[c].orderID \in DOMAIN items)
        => /\ cart[c].code = 200
           /\ cart[c].respOrderID = cart[c].orderID
           /\ orders[cart[c].orderID].partnerID = cart[c].partnerID
           /\ orders[cart[c].orderID].partnerOrderID = cart[c].body.partnerOrderID
           /\ orders[cart[c].orderID].status = OrderStatusPendingConfirmation

\* C18: once Step A has built its line items it has not crashed, and each
\* pass-through item became a custom line with the item's title, price and
\* quantity, and the product URL as its one custom attribute exactly when
\* the item has a product URL.
C18_PassThroughLineItems ==
    \A c \in CartIDs :
        cart[c].stepA # Nil
        => /\ cart[c].stepA # "panic"
           /\ Len(cart[c].lineItems) = Len(items[cart[c].orderID])
           /\ \A i \in 1..Len(cart[c].lineItems) :
                 LET item == items[cart[c].orderID][i]
                     line == cart[c].lineItems[i] IN
                 ~item.isSupplierItem
                 => /\ line.variantID = Nil
                    /\ line.quantity = item.quantity
                    /\ line.originalUnitPrice = ToString(item.price) \o ".00"
                    /\ line.customAttributes =
                          IF item.productURL = Nil THEN << >>
                          ELSE << [key |-> "product_url", value |-> item.productURL] >>

\* C28: a step the platform answered with user errors returns no identifier
\* and an error of the kind "downstream rejected input", which is not the
\* kind of the error the step returns on a transport failure or a timeout.
C28_UserErrorsAreDistinctKind ==
    \A c \in CartIDs :
        /\ cart[c].stepA = "user_errors"
           => /\ cart[c].draftOrderID = NoID
              /\ cart[c].errA.kind = "downstream_rejected_input"
              /\ cart[c].errA.kind # StepError("A", "transport").kind
              /\ cart[c].errA.kind # StepError("A", "timeout").kind
        /\ cart[c].stepB = "user_errors"
           => /\ cart[c].shopifyOrderID = NoID
              /\ cart[c].errB.kind = "downstream_rejected_input"
              /\ cart[c].errB.kind # StepError("B", "transport").kind
              /\ cart[c].errB.kind # StepError("B", "timeout").kind

\* C29: a submission calls the create operation at most once and the
\* finalize operation at most once; after a failed Step A it calls neither
\* again and after a failed Step B it is past the saga; Step B is called only
\* after the one successful Step A.
C29_EachStepAtMostOnce ==
    \A c \in CartIDs :
        /\ cart[c].callsA <= 1 /\ cart[c].callsB <= 1
        /\ cart[c].stepA \in DownstreamFailures
           => /\ cart[c].callsA = 1 /\ cart[c].callsB = 0
              /\ cart[c].pc \in {"idempotency", "done"}
        /\ cart[c].stepB \in DownstreamFailures
           => /\ cart[c].callsB = 1
              /\ cart[c].pc \in {"idempotency", "done"}
        /\ cart[c].callsB = 1 => (cart[c].callsA = 1 /\ cart[c].stepA = "ok")

\* Step A timed out; the request was answered with one call made to the
\* create operation and none to the finalize operation.
C29_Witness ==
    \E c \in CartIDs :
        /\ cart[c].pc = "done" /\ cart[c].code = 200
        /\ cart[c].stepA = "timeout"
        /\ cart[c].callsA = 1 /\ cart[c].callsB = 0
        /\ orders[cart[c].orderID].shopifyDraftOrderID = NoID

\* C30: the draft order Step A builds is tagged mixed_cart exactly when the
\* order's items include a supplier item and a pass-through item, and always
\* carries the partner tag, the partner order id tag and pending_confirmation.
C30_MixedCartTag ==
    \A c \in CartIDs :
        cart[c].stepA \notin {Nil, "panic"}
        => LET rows == items[cart[c].orderID]
               tagSet == {cart[c].tags[i] : i \in 1..Len(cart[c].tags)} IN
           /\ ("mixed_cart" \in tagSet)
                 <=> ( /\ \E i \in 1..Len(rows) : rows[i].isSupplierItem
                       /\ \E i \in 1..Len(rows) : ~rows[i].isSupplierItem )
           /\ ("partner:" \o PartnerName(cart[c].partnerID)) \in tagSet
           /\ ("partner_order:" \o cart[c].body.partnerOrderID) \in tagSet
           /\ "pending_confirmation" \in tagSet

\* A cart with a supplier line and a pass-through line (with a product URL)
\* went through Step A and its draft order has the four tags.
C30_Witness ==
    \E c \in CartIDs :
        /\ cart[c].stepA = "ok"
        /\ Len(cart[c].body.items) = 2
        /\ items[cart[c].orderID][1].isSupplierItem
        /\ ~items[cart[c].orderID][2].isSupplierItem
        /\ cart[c].tags = <<"partner:Acme", "partner_order:po-1",
                             "pending_confirmation", "mixed_cart">>

\* ------------------------------------------------------- identifiers, GIDs
\* The positions of the separators of a text, and the text after the last.
Slashes(gid) == {i \in 1..Len(gid) : gid[i] = Slash}

Trailing(gid) ==
    IF Slashes(gid) = {} THEN gid
    ELSE LET last == CHOOSE i \in Slashes(gid) : \A j \in Slashes(gid) : j <= i IN
         SubSeq(gid, last + 1, Len(gid))

\* A text without its sign, if it has one.
Unsigned(t) == IF Len(t) > 0 /\ t[1] \in {"+", "-"} THEN Tail(t) ELSE t

IsDecimal(t) ==
    /\ Len(Unsigned(t)) > 0
    /\ \A i \in 1..Len(Unsigned(t)) :
          Unsigned(t)[i] \in {"0", "1", "2", "3", "4", "5", "6", "7", "8", "9"}

\* The text of the platform's answer is an id: four parts or more, the last
\* a decimal integer.
HasID(gid) == Cardinality(Slashes(gid)) + 1 >= 4 /\ IsDecimal(Trailing(gid))

\* id is the number the trailing part of the text writes.
IsTrailingID(gid, id) ==
    /\ HasID(gid)
    /\ Unsigned(Trailing(gid)) = FormatInt(IF id < 0 THEN 0 - id ELSE id)
    /\ id < 0 => Trailing(gid)[1] = "-"
    /\ id > 0 => Trailing(gid)[1] # "-"

\* C39: extractIDFromGID gives n for the GID gid://shopify/<Type>/<n>; a step
\* the platform answered without user errors succeeds exactly when the GID
\* in the answer has four "/"-separated parts or more and a decimal integer
\* as its last part, and its id is then that integer; with any other text
\* (the empty one included) the step returns an error and no id, nothing is
\* stored for it, and the submission is still answered.
C39_IDOnlyFromWellFormedGID ==
    /\ shopify.answers = "gid"
          => \A type \in {"DraftOrder", "Order"}, n \in (0..12) \cup {101, 1101} :
                extractIDFromGID(FormatGID(type, n)) = [id |-> n, err |-> Nil]
    /\ \A c \in CartIDs :
          LET gidA == ResponseGID("DraftOrder", 100 + cart[c].orderID)
              gidB == ResponseGID("Order", 1000 + cart[c].draftOrderID) IN
          /\ cart[c].stepA = "ok" => IsTrailingID(gidA, cart[c].draftOrderID)
          /\ cart[c].stepA = "no_id"
                => /\ ~HasID(gidA)
                   /\ cart[c].draftOrderID = NoID
                   /\ cart[c].errA # NoError
                   /\ cart[c].callsB = 0
                   /\ orders[cart[c].orderID].shopifyDraftOrderID = NoID
          /\ cart[c].stepB = "ok" => IsTrailingID(gidB, cart[c].shopifyOrderID)
          /\ cart[c].stepB = "no_id"
                => /\ ~HasID(gidB)
                   /\ cart[c].shopifyOrderID = NoID
                   /\ cart[c].errB # NoError
                   /\ orders[cart[c].orderID].shopifyOrderID = NoID
          /\ (cart[c].pc = "done" /\ cart[c].stepA # Nil) => cart[c].code = 200

\* The platform answered the create mutation with no object (an empty GID):
\* Step A returned an error, Step B was not called, and the submission was
\* answered with the order, which has no downstream id.
C39_Witness ==
    \E c \in CartIDs :
        /\ shopify.answers = "text" /\ shopify.text = << >>
        /\ cart[c].pc = "done" /\ cart[c].code = 200
        /\ cart[c].stepA = "no_id" /\ cart[c].callsA = 1 /\ cart[c].callsB = 0
        /\ orders[cart[c].orderID].shopifyDraftOrderID = NoID

\* ------------------------------------------------------ the customer name
\* The positions where a token of a text starts, and the token that starts
\* at position i: the characters up to the next white space.
TokenStarts(s) ==
    {i \in 1..Len(s) : ~IsSpace(s[i]) /\ (i = 1 \/ IsSpace(s[i - 1]))}

TokenAt(s, i) ==
    LET end == CHOOSE j \in i..Len(s) :
                   /\ \A k \in i..j : ~IsSpace(s[k])
                   /\ (j = Len(s) \/ IsSpace(s[j + 1])) IN
    SubSeq(s, i, end)

\* The tokens that start at the given positions, in order, with one space
\* between two of them.
RECURSIVE SpacedTokens(_, _)
SpacedTokens(s, starts) ==
    LET first == CHOOSE i \in starts : \A j \in starts : i <= j IN
    IF starts = {first} THEN TokenAt(s, first)
    ELSE TokenAt(s, first) \o <<" ">> \o SpacedTokens(s, starts \ {first})

\* C31: the draft order Step A builds has, as first name, the first
\* white-space-separated token of the customer name and, as last name, the
\* remaining tokens joined by single spaces; a name of one token has no last
\* name; a name without a token (empty, or white space only) has an empty
\* first name and no last name.
C31_NameSplitOnWhitespace ==
    /\ DraftOrderAddressInput(<< >>) = [firstName |-> << >>, lastName |-> NilString]
    /\ \A c \in CartIDs :
          cart[c].stepA \notin {Nil, "panic"}
          => LET name == orders[cart[c].orderID].customerName
                 starts == TokenStarts(name)
                 first == CHOOSE i \in starts : \A j \in starts : i <= j
                 addr == cart[c].shippingAddr IN
             /\ name = cart[c].body.customerName
             /\ starts = {} => addr = [firstName |-> << >>, lastName |-> NilString]
             /\ starts # {} => addr.firstName = TokenAt(name, first)
             /\ Cardinality(starts) = 1 => addr.lastName = NilString
             /\ Cardinality(starts) > 1
                   => /\ ~addr.lastName.isNil
                      /\ addr.lastName.value = SpacedTokens(name, starts \ {first})

\* The name "a b<tab>b" went through Step A: first name "a", last name "b b".
C31_Witness ==
    \E c \in CartIDs :
        /\ cart[c].stepA = "ok"
        /\ cart[c].body.customerName = <<"a", " ", "b", "\t", "b">>
        /\ cart[c].shippingAddr.firstName = <<"a">>
        /\ cart[c].shippingAddr.lastName = stringPtr(<<"b", " ", "b">>)

\* ------------------------------------------------------------ what stays
\* C32: the items of an order are written in one step, by the batch insert of
\* the submission that created the order, one item per cart line; no step of
\* any request (replay, confirm, reject, ship, Step A, Step B, read) adds,
\* changes or removes an item of an order that has items.
C32_ItemsWrittenOnce ==
    [][ /\ \A o \in DOMAIN items : o \in DOMAIN items' /\ items'[o] = items[o]
        /\ items' # items
              => \E c \in CartIDs :
                    /\ cart[c].pc = "create_items" /\ cart'[c].pc = "event"
                    /\ cart[c].outcome = "fresh"
                    /\ cart[c].orderID \notin DOMAIN items
                    /\ DOMAIN items' = DOMAIN items \cup {cart[c].orderID}
                    /\ Len(items'[cart[c].orderID]) = Len(cart[c].body.items)
        /\ (admin' # admin \/ gets' # gets) => items' = items
        /\ \A c \in CartIDs :
              (cart'[c] # cart[c] /\ cart[c].pc # "create_items") => items' = items
      ]_vars

\* The first submission stored the two items of order 2; since then a
\* replay was answered with order 2, an admin request confirmed it and the
\* partner read it: its items, and those of order 1, are as they were written.
C32_Witness ==
    /\ cart[1].pc = "done" /\ cart[1].orderID = 2 /\ cart[1].stepB = "ok"
    /\ cart[2].pc = "done" /\ cart[2].outcome = "replay" /\ cart[2].respOrderID = 2
    /\ admin[1].pc = "done" /\ admin[1].kind = "confirm" /\ admin[1].orderID = 2
    /\ admin[1].code = 200
    /\ gets[1].pc = "done" /\ gets[1].code = 200 /\ gets[1].orderID = 2
    /\ items[2] = [i \in 1..2 |->
                     SupplierOrderItem(2, cart[1].body.items[i], cart[1].supplierItems)]
    /\ gets[1].response.items = items[2]
    /\ Len(items[1]) = 1

\* C33: no step changes or removes an event of the log (a step leaves the log
\* as it is or appends one event), and every order_created event of an order
\* comes before every status_change event of that order.
C33_AuditLogAppendOnly ==
    [][ /\ Len(events') >= Len(events)
        /\ SubSeq(events', 1, Len(events)) = events
        /\ Len(events') <= Len(events) + 1
        /\ \A i, j \in 1..Len(events') :
              ( /\ events'[i].orderID = events'[j].orderID
                /\ events'[i].eventType = "order_created"
                /\ events'[j].eventType = "status_change" )
              => i < j
      ]_vars

\* C34: an order is inserted with status PENDING_CONFIRMATION; no step of a
\* cart submission changes the status of a stored order; and a submission
\* that created an order ends with that order PENDING_CONFIRMATION, whatever
\* Step A and Step B did, unless an admin request updated the order.
C34_SagaLeavesStatus ==
    [][ /\ \A o \in DOMAIN orders' \ DOMAIN orders :
              orders'[o].status = OrderStatusPendingConfirmation
        /\ \A c \in CartIDs :
              cart'[c] # cart[c]
              => \A o \in DOMAIN orders : orders'[o].status = orders[o].status
        /\ \A c \in CartIDs :
              ( /\ cart'[c].pc = "done"
                /\ cart'[c].orderID \in DOMAIN orders'
                /\ ~\E a \in AdminIDs :
                       /\ admin'[a].orderID = cart'[c].orderID
                       /\ admin'[a].pc \in {"event", "respond", "done"}
                       /\ admin'[a].from # Nil
                       /\ admin'[a].code \in {0, 200} )
              => orders'[cart'[c].orderID].status = OrderStatusPendingConfirmation
      ]_vars

\* A submission whose Step A and Step B both succeeded and were stored has
\* been answered, and its order is PENDING_CONFIRMATION with both downstream
\* ids, while an admin request has confirmed the other order meanwhile.
C34_Witness ==
    \E c \in CartIDs :
        /\ cart[c].pc = "done" /\ cart[c].code = 200
        /\ cart[c].stepA = "ok" /\ cart[c].stepB = "ok"
        /\ cart[c].draftStored /\ cart[c].orderStored
        /\ orders[cart[c].orderID].shopifyOrderID # NoID
        /\ orders[cart[c].orderID].status = OrderStatusPendingConfirmation
        /\ admin[1].kind = "confirm" /\ admin[1].code = 200 /\ admin[1].orderID = 1
        /\ orders[1].status = OrderStatusConfirmed

\* ----------------------------------------------- no content, no record
\* C35: a cart none of whose SKUs has an active mapping is classified as
\* having no supplier item; a cart so classified is answered 204 in that
\* step, with or without an idempotency key, and the step leaves the store
\* (orders, items, events, idempotency records) unchanged; the submission has
\* called neither downstream operation and does nothing more.
C35_NoContentLeavesStore ==
    [][ \A c \in CartIDs :
          /\ ( /\ cart[c].pc = "classify" /\ cart'[c].pc # "classify"
               /\ ActiveSKUs(cart[c].body.items) = {} )
             => ~cart'[c].hasSupplierSKU
          /\ ( /\ cart[c].pc = "classify" /\ cart'[c].pc # "classify"
               /\ ~cart'[c].hasSupplierSKU )
             => ( /\ cart'[c].pc = "done" /\ cart'[c].code = 204
                  /\ UNCHANGED <<orders, items, events, idem, skuMappings>>
                  /\ cart'[c].orderID = NoID /\ cart'[c].respOrderID = NoID
                  /\ cart'[c].callsA = 0 /\ cart'[c].callsB = 0
                  /\ GetByKey(cart[c].key)' = GetByKey(cart[c].key) )
          /\ cart[c].code = 204 => cart'[c] = cart[c]
      ]_vars

\* A cart of an unmapped and an inactive SKU was submitted under a key and
\* answered 204 with the store empty; the next submission under that key was
\* Fresh and created the first order and the first record.
C35_Witness ==
    \E c1, c2 \in CartIDs :
        /\ c1 \in cart[c2].after
        /\ cart[c1].key = "key-1" /\ cart[c1].code = 204
        /\ cart[c1].failing = {}
        /\ cart[c1].body = CartSubmitRequest("po-2", <<"B", "C">>)
        /\ cart[c2].key = "key-1" /\ cart[c2].outcome = "fresh"
        /\ cart[c2].pc = "done" /\ cart[c2].code = 200 /\ cart[c2].orderID = 1
        /\ DOMAIN orders = {1} /\ Len(events) = 1
        /\ idem = { IdempotencyKey("key-1", "p1", 1, RequestHash(cart[c2].body)) }

\* C36: when the record of a submission's key is not stored (the store
\* fails, or refuses the key), the submission is still answered 200 with the
\* id of the order it created, and that step changes no order, item or
\* event: the order keeps its downstream ids.
C36_RecordFailureNotSurfaced ==
    [][ \A c \in CartIDs :
          ( /\ cart[c].pc = "idempotency" /\ cart'[c].pc # "idempotency"
            /\ cart[c].key # Nil
            /\ idem' = idem )
          => ( /\ cart'[c].pc = "done" /\ cart'[c].code = 200
               /\ cart'[c].respOrderID = cart[c].orderID
               /\ cart[c].orderID \in DOMAIN orders
               /\ orders' = orders /\ items' = items /\ events' = events
               /\ orders'[cart[c].orderID].shopifyDraftOrderID =
                      orders[cart[c].orderID].shopifyDraftOrderID
               /\ orders'[cart[c].orderID].shopifyOrderID =
                      orders[cart[c].orderID].shopifyOrderID )
      ]_vars

\* A submission under a key whose saga ran in full was answered 200 with its
\* order, which has both downstream ids, and there is no record of the key.
C36_Witness ==
    \E c \in CartIDs :
        /\ cart[c].key = "key-1" /\ cart[c].pc = "done" /\ cart[c].code = 200
        /\ cart[c].respOrderID = cart[c].orderID
        /\ cart[c].draftStored /\ cart[c].orderStored
        /\ orders[cart[c].orderID].shopifyDraftOrderID = cart[c].draftOrderID
        /\ orders[cart[c].orderID].shopifyOrderID = cart[c].shopifyOrderID
        /\ cart[c].shopifyOrderID # NoID
        /\ idem = {}

\* ------------------------------------------------------------- ownership
\* The body of an answer holds nothing of an order.
NoOrderContent(response) == response.order = NoOrder /\ response.items = << >>

\* C37: a read with no authenticated partner is answered 401; a read of an
\* existing order by an authenticated partner that does not own it is
\* answered "access denied" (403; 500 if the lookup itself failed), never
\* loads the order for the answer, and the answer is the same whatever the
\* order holds; only a 200 carries an order, and it is the requested order,
\* owned by the authenticated partner, with that order's items.
C37_OrderReadIsolation ==
    [][ \A g \in GetIDs :
          /\ (gets[g].pc = "handler" /\ gets'[g].pc # "handler")
             => /\ gets[g].partnerID = Nil
                   => ( /\ gets'[g].pc = "done" /\ gets'[g].code = 401
                        /\ gets'[g].response = ErrorResponse("unauthorized") )
                /\ ( /\ gets[g].partnerID # Nil
                     /\ gets[g].orderID \in DOMAIN orders
                     /\ orders[gets[g].orderID].partnerID # gets[g].partnerID )
                   => ( /\ gets'[g].pc = "done"
                        /\ gets'[g].code \in {403, 500}
                        /\ gets'[g].order = NoOrder
                        /\ gets'[g].code = 403
                              => gets'[g].response = ErrorResponse("access denied") )
          /\ gets'[g].code # 200 => NoOrderContent(gets'[g].response)
          /\ gets'[g].order # NoOrder => gets'[g].order.partnerID = gets'[g].partnerID
          /\ gets'[g].code = 200
                => /\ gets'[g].partnerID # Nil
                   /\ gets'[g].response.order.id = gets'[g].orderID
                   /\ gets'[g].response.order.partnerID = gets'[g].partnerID
                   /\ \A i \in 1..Len(gets'[g].response.items) :
                         gets'[g].response.items[i].supplierOrderID = gets'[g].orderID
      ]_vars

\* Order 1 is owned by p1: p2's read of it was answered 403 with no content,
\* and p1's read of it 200 with the order and its item.
C37_Witness ==
    \E g, h \in GetIDs :
        /\ orders[1].partnerID = "p1"
        /\ gets[g].pc = "done" /\ gets[g].partnerID = "p2" /\ gets[g].orderID = 1
        /\ gets[g].code = 403 /\ gets[g].response = ErrorResponse("access denied")
        /\ gets[h].pc = "done" /\ gets[h].partnerID = "p1" /\ gets[h].orderID = 1
        /\ gets[h].code = 200 /\ gets[h].response = OrderResponse(orders[1], items[1])

\* C38: every idempotency record names an order that exists and whose
\* partner is the record's partner; a record, once written, stays as it is
\* (key, partner, order id, request hash), and no key has two records.
C38_RecordRefersToOwnOrder ==
    [][ /\ \A r \in idem' :
              /\ r.supplierOrderID \in DOMAIN orders'
              /\ orders'[r.supplierOrderID].partnerID = r.partnerID
        /\ \A r \in idem : r \in idem'
        /\ \A r1, r2 \in idem' : r1.key = r2.key => r1 = r2
      ]_vars

\* p1 created order 1 under the key; p2 then sent the same cart under the
\* same key and was answered with order 1; the one record is still p1's.
C38_Witness ==
    \E c1, c2 \in CartIDs :
        /\ c1 \in cart[c2].after
        /\ cart[c1].partnerID = "p1" /\ cart[c1].code = 200 /\ cart[c1].orderID = 1
        /\ cart[c2].partnerID = "p2" /\ cart[c2].outcome = "replay"
        /\ cart[c2].pc = "done" /\ cart[c2].code = 200
        /\ idem = { IdempotencyKey("key-1", "p1", 1, RequestHash(cart[c1].body)) }
        /\ orders[1].partnerID = "p1"

====
